---- MODULE Spec2Model ----
(***************************************************************************)
(* Model of the forum media crawler (src/app.py, src/bot.py): the calendar *)
(* window generator, the recursive range splitter, the post extractor and  *)
(* the crawl handler with its worker pool and its cancellation registry.   *)
(*                                                                         *)
(* The specifications of the module:                                       *)
(*   SpecSplit  split_url as an explicit call stack                        *)
(*   SpecGen    generate_links as a function of (now, start, end)          *)
(*   SpecReq    make_request, one attempt a step                           *)
(*   SpecPost   process_post on concrete pages                             *)
(*   SpecRerun  process_post run twice on one post                         *)
(*   SpecOrder  a batch of process_post tasks, one task at a time          *)
(*   Spec       telegram_webhook / cancel_task / pool workers              *)
(*   SpecSolo   the same in narrower bounds                                *)
(*   SpecRival  the same with a second crawl request of the chat           *)
(*   SpecBotSplit, SpecBotGen  split_url and generate_links of bot.py      *)
(***************************************************************************)
EXTENDS Integers, Sequences, FiniteSets, TLC

VARIABLES
    \* ---- split_url ----
    splitNow,      \* datetime.now() in ticks (TicksPerDay ticks a day)
    splitRoot,     \* the arguments of the outermost call: [s, e] dates
    splitStack,    \* calls not yet run, innermost first
    splitOut,      \* the windows returned so far, left to right
    splitLast,     \* what the most recent call did: its range, probe, children
    \* ---- generate_links ----
    genNow,        \* datetime.now(): a calendar date and the tick within it
    genArgs,       \* [start_year, end_year] as requested
    genPc,         \* "call" before generate_links ran, "done" after
    genLinks,      \* the list it returned
    \* ---- telegram_webhook, cancel_task, process_post ----
    request,       \* [usernames, start_year, end_year] of the crawl request
    limits,        \* [urls, pages, cancels]: the bounds of the run
    active_tasks,  \* chat id -> serial number of the futures list installed
    batchNo,       \* serial number of the last futures list created; 0 is []
    tasks,         \* the futures of that list and their tasks
    pc,            \* where the crawl handler stands
    username_idx,  \* position of the subject loop in usernames (line 736)
    search_links,  \* the windows of the subject still to crawl (line 751)
    urls_to_process, \* the split windows still to fetch (line 756)
    page_total,    \* total_pages of line 757
    all_post_links, \* line 743
    seen_links,    \* line 744
    media_by_date_per_username, \* line 729
    global_seen,   \* line 734
    outcome,       \* the message the handler ends on
    cancel_pc,     \* where the /stop handler stands in cancel_task
    cancel_futures, \* the futures list cancel_task read at line 658
    cancel_results, \* what the finished cancel_task calls returned, and when
    \* ---- make_request ----
    reqArgs,       \* [url, method, timeout]: timeout says kwargs holds 'timeout'
    reqPc,         \* "attempt" in the loop, "returned", "raised"
    reqLog,        \* one entry an attempt made: [timeout, result]
    reqSlept,      \* seconds spent in time.sleep so far
    reqError,      \* the type of the exception raised, "none" before
    \* ---- a second crawl request of the same chat ----
    rival_pc       \* where its handler stands

splitVars == <<splitNow, splitRoot, splitStack, splitOut, splitLast>>

genVars == <<genNow, genArgs, genPc, genLinks>>

crawlVars ==
    <<request, limits, active_tasks, batchNo, tasks, pc, username_idx,
      search_links,
      urls_to_process, page_total, all_post_links, seen_links,
      media_by_date_per_username, global_seen, outcome, cancel_pc,
      cancel_futures, cancel_results>>

reqVars == <<reqArgs, reqPc, reqLog, reqSlept, reqError>>

rivalVars == <<rival_pc>>

vars == <<splitVars, genVars, crawlVars, reqVars, rivalVars>>

\* No second crawl request
IdleRival == rival_pc = "returned"

\* No call of make_request under way
IdleReq ==
    /\ reqArgs = [url |-> <<>>, method |-> "get", timeout |-> FALSE]
    /\ reqPc = "returned"
    /\ reqLog = <<>>
    /\ reqSlept = 0
    /\ reqError = "none"

\* No crawl: the state of the handlers' variables while only a function is run
IdleCrawl ==
    /\ request = [usernames |-> <<>>, start_year |-> 0, end_year |-> 0]
    /\ limits = [urls |-> 0, pages |-> 0, cancels |-> 0]
    /\ active_tasks = <<>>
    /\ batchNo = 0
    /\ tasks = <<>>
    /\ pc = "returned"
    /\ username_idx = 0
    /\ search_links = <<>>
    /\ urls_to_process = 0
    /\ page_total = 0
    /\ all_post_links = <<>>
    /\ seen_links = {}
    /\ media_by_date_per_username = <<>>
    /\ global_seen = [images |-> {}, videos |-> {}, gifs |-> {}]
    /\ outcome = "none"
    /\ cancel_pc = "returned"
    /\ cancel_futures = 0
    /\ cancel_results = <<>>

(***************************************************************************)
(* Dates and datetimes.  A date ("%Y-%m-%d") is a day number, day 0 being  *)
(* 2010-01-01.  A datetime is a tick count; strptime gives midnight of the *)
(* date, strftime drops the time of day, timedelta.days floors.            *)
(***************************************************************************)
TicksPerDay == 2

strptime(date) == date * TicksPerDay

strftime(dt) == dt \div TicksPerDay

timedelta(days) == days * TicksPerDay

days_of(delta) == delta \div TicksPerDay

\* datetime(2010, 1, 1)
MinDatetime == strptime(0)

MAX_PAGES_PER_SEARCH == 10

BUFFER_DAYS == 3

(***************************************************************************)
(* split_url (app.py).  The recursion is run on an explicit stack: a frame *)
(* is a call not yet run, [s, e] its start_date and end_date arguments     *)
(* (the url argument carries the same two dates in its query), depth its   *)
(* nesting, anc the arguments of its callers, outermost first.             *)
(***************************************************************************)
\* Bounds of the split_url model.
NowDay == 13
MaxDepth == 2
RootSlack == 3

\* What the probe request of one call can come back with: a page count read
\* from the pagination control (1 when there is none), or a failure.
Pages(n) == [kind |-> "pages", n |-> n]

Fail == [kind |-> "fail", n |-> 0]

RecursionError == [kind |-> "RecursionError", n |-> 0]

ProbeAnswers ==
    {Pages(1), Pages(MAX_PAGES_PER_SEARCH), Pages(MAX_PAGES_PER_SEARCH + 5), Fail}

Window(s, e, pages, via) == [s |-> s, e |-> e, pages |-> pages, via |-> via]

Frame(s, e, depth, anc) == [s |-> s, e |-> e, depth |-> depth, anc |-> anc]

\* Lines 176-188: the 3-day buffer and the clamps to now and to 2010.
buffered_end_dt(end_dt, now) ==
    LET b == end_dt + timedelta(BUFFER_DAYS)
    IN  IF b > now THEN now ELSE b

buffered_start_dt(start_dt) ==
    LET b == start_dt - timedelta(BUFFER_DAYS)
    IN  IF b < MinDatetime THEN MinDatetime ELSE b

UnderCeiling_AtMost(total_pages, max_pages) == total_pages <= max_pages

\* Line 208: the base case of the recursion.
UnderCeiling(total_pages, max_pages) == total_pages < max_pages

\* The guard of line 213 set at a week
Indivisible_Week(total_days) == total_days <= 7

\* Line 213: the range cannot be split further.
Indivisible(total_days) == total_days <= 1

\* Lines 217-232: the two halves, as the date strings handed to the recursion.
first_range(bs_dt, be_dt, now) ==
    LET total_days == days_of(be_dt - bs_dt)
        mid_dt == bs_dt + timedelta(total_days \div 2)
        e1 == mid_dt + timedelta(BUFFER_DAYS)
        first_range_end == IF e1 > now THEN now ELSE e1
    IN  <<strftime(bs_dt), strftime(first_range_end)>>

second_range(bs_dt, be_dt, now) ==
    LET total_days == days_of(be_dt - bs_dt)
        mid_dt == bs_dt + timedelta(total_days \div 2)
        s2 == mid_dt - timedelta(BUFFER_DAYS)
        second_range_start == IF s2 > now THEN now ELSE s2
    IN  <<strftime(second_range_start), strftime(be_dt)>>

probe_failed_window_Unbuffered(s, e, bs, be) == Window(s, e, -1, "probe_failed")

\* Lines 203-205: what the handler of a failed probe returns.
probe_failed_window(s, e, bs, be) == Window(bs, be, -1, "probe_failed")

\* The call with a failed probe taken for a full page count
split_body_FailBisects(f, now, probe) ==
    LET start_dt == strptime(f.s)
        end_dt == strptime(f.e)
        bs_dt == buffered_start_dt(start_dt)
        be_dt == buffered_end_dt(end_dt, now)
        bs == strftime(bs_dt)
        be == strftime(be_dt)
        total_days == days_of(be_dt - bs_dt)
        r1 == first_range(bs_dt, be_dt, now)
        r2 == second_range(bs_dt, be_dt, now)
        anc == Append(f.anc, <<f.s, f.e>>)
    IN  IF probe = RecursionError
        THEN [ret |-> <<Window(f.s, f.e, -1, "error")>>, calls |-> <<>>,
              bs |-> bs, be |-> be]
        ELSE IF start_dt >= end_dt
        THEN [ret |-> <<Window(f.s, f.e, -1, "invalid")>>, calls |-> <<>>,
              bs |-> f.s, be |-> f.e]
        ELSE IF probe # Fail /\ UnderCeiling(probe.n, MAX_PAGES_PER_SEARCH)
        THEN [ret |-> <<Window(bs, be, probe.n, "under")>>, calls |-> <<>>,
              bs |-> bs, be |-> be]
        ELSE IF Indivisible(total_days)
        THEN [ret |-> <<Window(bs, be, probe.n, "indivisible")>>, calls |-> <<>>,
              bs |-> bs, be |-> be]
        ELSE [ret |-> <<>>,
              calls |-> <<Frame(r1[1], r1[2], f.depth + 1, anc),
                          Frame(r2[1], r2[2], f.depth + 1, anc)>>,
              bs |-> bs, be |-> be]

\* One call of split_url with the probe's answer: the windows it returns itself
\* (ret) and the calls it makes (calls), left one first.
split_body(f, now, probe) ==
    LET start_dt == strptime(f.s)
        end_dt == strptime(f.e)
        bs_dt == buffered_start_dt(start_dt)
        be_dt == buffered_end_dt(end_dt, now)
        bs == strftime(bs_dt)
        be == strftime(be_dt)
        total_days == days_of(be_dt - bs_dt)
        r1 == first_range(bs_dt, be_dt, now)
        r2 == second_range(bs_dt, be_dt, now)
        anc == Append(f.anc, <<f.s, f.e>>)
    IN  IF probe = RecursionError
        THEN [ret |-> <<Window(f.s, f.e, -1, "error")>>, calls |-> <<>>,
              bs |-> bs, be |-> be]
        ELSE IF start_dt >= end_dt
        THEN [ret |-> <<Window(f.s, f.e, -1, "invalid")>>, calls |-> <<>>,
              bs |-> f.s, be |-> f.e]
        ELSE IF probe = Fail
        THEN [ret |-> <<probe_failed_window(f.s, f.e, bs, be)>>, calls |-> <<>>,
              bs |-> bs, be |-> be]
        ELSE IF UnderCeiling(probe.n, MAX_PAGES_PER_SEARCH)
        THEN [ret |-> <<Window(bs, be, probe.n, "under")>>, calls |-> <<>>,
              bs |-> bs, be |-> be]
        ELSE IF Indivisible(total_days)
        THEN [ret |-> <<Window(bs, be, probe.n, "indivisible")>>, calls |-> <<>>,
              bs |-> bs, be |-> be]
        ELSE [ret |-> <<>>,
              calls |-> <<Frame(r1[1], r1[2], f.depth + 1, anc),
                          Frame(r2[1], r2[2], f.depth + 1, anc)>>,
              bs |-> bs, be |-> be]

SplitStep(probe) ==
    LET f == Head(splitStack)
        r == split_body(f, splitNow, probe)
    IN  /\ splitStack' = r.calls \o Tail(splitStack)
        /\ splitOut' = splitOut \o r.ret
        /\ splitLast' = [s |-> f.s, e |-> f.e, depth |-> f.depth,
                         bs |-> r.bs, be |-> r.be, probe |-> probe,
                         calls |-> r.calls]
        /\ UNCHANGED <<splitNow, splitRoot>>

\* A call within the interpreter's recursion limit.
SplitCall ==
    /\ splitStack # <<>>
    /\ Head(splitStack).depth <= MaxDepth
    /\ \E probe \in ProbeAnswers : SplitStep(probe)

\* A call past the recursion limit: RecursionError is raised inside the probe
\* (caught at line 203) or elsewhere in the body (caught at line 244).
SplitOverflow ==
    /\ splitStack # <<>>
    /\ Head(splitStack).depth > MaxDepth
    /\ \E probe \in {Fail, RecursionError} : SplitStep(probe)

RootDays == (0 - RootSlack) .. (NowDay + RootSlack)

NoCall == [s |-> 0, e |-> 0, depth |-> 0, bs |-> 0, be |-> 0,
           probe |-> [kind |-> "none", n |-> 0], calls |-> <<>>]

InitSplit ==
    /\ splitNow \in {strptime(NowDay) + k : k \in 0 .. (TicksPerDay - 1)}
    /\ splitRoot \in [s : RootDays, e : RootDays]
    /\ splitStack = <<Frame(splitRoot.s, splitRoot.e, 1, <<>>)>>
    /\ splitOut = <<>>
    /\ splitLast = NoCall

IdleSplit ==
    /\ splitNow = 0
    /\ splitRoot = [s |-> 0, e |-> 0]
    /\ splitStack = <<>>
    /\ splitOut = <<>>
    /\ splitLast = NoCall

(***************************************************************************)
(* generate_links (app.py).  A calendar date "%Y-%m-%d" is the number      *)
(* YYYYMMDD, which orders as the dates do; a datetime is                   *)
(* date * TicksPerDay + tick.                                              *)
(***************************************************************************)
\* Bound of the generate_links model: the year of the clock.
GenNowYear == 2012

MIN_YEAR == 2010

Date(y, m, d) == y * 10000 + m * 100 + d

YearOf(date) == date \div 10000

MonthOf(date) == (date \div 100) % 100

IsLeap(y) == (y % 4 = 0 /\ y % 100 # 0) \/ y % 400 = 0

DaysInMonth(y, m) ==
    IF m = 2 THEN (IF IsLeap(y) THEN 29 ELSE 28)
    ELSE IF m \in {4, 6, 9, 11} THEN 30 ELSE 31

DatesOfYear(y) ==
    {dt \in {Date(y, m, d) : m \in 1 .. 12, d \in 1 .. 31} :
        dt % 100 <= DaysInMonth(y, MonthOf(dt))}

\* Lines 109-116: the table of (start "MM-DD", end "MM-DD") pairs.
months ==
    << <<12, 13, 1, 3>>,  <<11, 28, 12, 18>>, <<11, 13, 12, 3>>, <<10, 29, 11, 18>>,
       <<10, 13, 11, 3>>, <<9, 28, 10, 18>>,  <<9, 13, 10, 3>>,  <<8, 29, 9, 18>>,
       <<8, 13, 9, 3>>,   <<7, 29, 8, 18>>,   <<7, 13, 8, 3>>,   <<6, 28, 7, 18>>,
       <<6, 13, 7, 3>>,   <<5, 29, 6, 18>>,   <<5, 13, 6, 3>>,   <<4, 28, 5, 18>>,
       <<4, 13, 5, 3>>,   <<3, 29, 4, 18>>,   <<3, 13, 4, 3>>,   <<2, 26, 3, 18>>,
       <<2, 13, 3, 3>>,   <<1, 29, 2, 18>>,   <<1, 13, 2, 3>>,   <<12, 29, 1, 18>> >>

date_dt(date) == date * TicksPerDay

dt_date(dt) == dt \div TicksPerDay

\* Lines 145-147: the range check that drops a window.
InvalidRange(start_dt, end_dt, end_date_dt) == start_dt >= end_dt

\* The inner loop with a January end put in the year after the start's
generate_link_NextJanuary(year, p, now) ==
    LET start_year_adj == IF p[1] = 12 THEN year - 1 ELSE year
        end_year_adj == IF p[3] = 1 THEN start_year_adj + 1 ELSE year
        start_date == Date(start_year_adj, p[1], p[2])
        end_date0 == Date(end_year_adj, p[3], p[4])
        start_dt == date_dt(start_date)
        end_dt == date_dt(end_date0)
        end_date == IF end_dt > now THEN dt_date(now) ELSE end_date0
    IN  IF start_dt > now THEN <<>>
        ELSE IF InvalidRange(start_dt, end_dt, date_dt(end_date)) THEN <<>>
        ELSE <<[year |-> year, start_date |-> start_date, end_date |-> end_date]>>

\* Lines 122-156: one pass of the inner loop, for table pair p of year `year`:
\* the tuples it appends to links (none or one).
generate_link(year, p, now) ==
    LET start_year_adj == IF p[1] = 12 THEN year - 1 ELSE year
        end_year_adj == IF p[3] = 1 THEN year + 1 ELSE year
        start_date == Date(start_year_adj, p[1], p[2])
        end_date0 == Date(end_year_adj, p[3], p[4])
        start_dt == date_dt(start_date)
        end_dt == date_dt(end_date0)
        end_date == IF end_dt > now THEN dt_date(now) ELSE end_date0
    IN  IF start_dt > now THEN <<>>
        ELSE IF InvalidRange(start_dt, end_dt, date_dt(end_date)) THEN <<>>
        ELSE <<[year |-> year, start_date |-> start_date, end_date |-> end_date]>>

RECURSIVE links_of_year(_, _, _)
links_of_year(year, i, now) ==
    IF i > Len(months) THEN <<>>
    ELSE generate_link(year, months[i], now) \o links_of_year(year, i + 1, now)

RECURSIVE links_from(_, _, _)
links_from(year, start_year, now) ==
    IF year < start_year THEN <<>>
    ELSE links_of_year(year, 1, now) \o links_from(year - 1, start_year, now)

\* Lines 95-101 and 118-162.
generate_links(start_year, end_year, now) ==
    LET current_year == YearOf(dt_date(now))
        sy == IF start_year < MIN_YEAR THEN MIN_YEAR ELSE start_year
        ey == IF end_year > current_year THEN current_year ELSE end_year
    IN  links_from(ey, sy, now)

GenCall ==
    /\ genPc = "call"
    /\ genLinks' = generate_links(genArgs.start_year, genArgs.end_year, genNow)
    /\ genPc' = "done"
    /\ UNCHANGED <<genNow, genArgs>>

GenYears == (MIN_YEAR - 1) .. (GenNowYear + 1)

InitGen ==
    /\ genNow \in {date_dt(d) + k : d \in DatesOfYear(GenNowYear),
                                    k \in 0 .. (TicksPerDay - 1)}
    /\ genArgs \in [start_year : GenYears, end_year : GenYears]
    /\ genPc = "call"
    /\ genLinks = <<>>

IdleGen ==
    /\ genNow = 0
    /\ genArgs = [start_year |-> 0, end_year |-> 0]
    /\ genPc = "done"
    /\ genLinks = <<>>

NextGen == GenCall /\ UNCHANGED <<splitVars, crawlVars, reqVars, rivalVars>>

GenInit == InitGen /\ IdleSplit /\ IdleCrawl /\ IdleReq /\ IdleRival

SpecGen == GenInit /\ [][NextGen]_vars

NextSplit ==
    (SplitCall \/ SplitOverflow) /\ UNCHANGED <<genVars, crawlVars, reqVars,
                                                 rivalVars>>

SplitInit == InitSplit /\ IdleGen /\ IdleCrawl /\ IdleReq /\ IdleRival

SpecSplit == SplitInit /\ [][NextSplit]_vars

splitDone == splitStack = <<>>

(***************************************************************************)
(* Strings.  A Python str is the sequence of its characters; the operators *)
(* below are the str methods and the regular expressions process_post uses.*)
(***************************************************************************)
AsciiUpper ==
    <<"A", "B", "C", "D", "E", "F", "G", "H", "I", "J", "K", "L", "M", "N",
      "O", "P", "Q", "R", "S", "T", "U", "V", "W", "X", "Y", "Z">>

AsciiLower ==
    <<"a", "b", "c", "d", "e", "f", "g", "h", "i", "j", "k", "l", "m", "n",
      "o", "p", "q", "r", "s", "t", "u", "v", "w", "x", "y", "z">>

lower_char(c) ==
    IF \E i \in DOMAIN AsciiUpper : AsciiUpper[i] = c
    THEN AsciiLower[CHOOSE i \in DOMAIN AsciiUpper : AsciiUpper[i] = c]
    ELSE c

RECURSIVE lower_from(_, _)
lower_from(s, i) ==
    IF i > Len(s) THEN <<>> ELSE <<lower_char(s[i])>> \o lower_from(s, i + 1)

\* str.lower()
lower(s) == lower_from(s, 1)

RECURSIVE replace_from(_, _, _, _)
replace_from(s, i, old, new) ==
    IF i > Len(s) THEN <<>>
    ELSE <<(IF s[i] = old THEN new ELSE s[i])>> \o replace_from(s, i + 1, old, new)

\* str.replace(old, new) for one-character old and new
replace(s, old, new) == replace_from(s, 1, old, new)

\* str.startswith, str.endswith, `sub in s`
startswith(s, p) == Len(p) <= Len(s) /\ SubSeq(s, 1, Len(p)) = p

endswith(s, p) == Len(p) <= Len(s) /\ SubSeq(s, Len(s) - Len(p) + 1, Len(s)) = p

contains(s, p) ==
    \E i \in 1 .. (Len(s) - Len(p) + 1) : SubSeq(s, i, i + Len(p) - 1) = p

IsSpace(c) == c = " "

RECURSIVE split_from(_, _, _)
split_from(s, i, cur) ==
    IF i > Len(s) THEN (IF cur = <<>> THEN <<>> ELSE <<cur>>)
    ELSE IF IsSpace(s[i])
    THEN (IF cur = <<>> THEN <<>> ELSE <<cur>>) \o split_from(s, i + 1, <<>>)
    ELSE split_from(s, i + 1, Append(cur, s[i]))

\* str.split(): the whitespace-delimited parts
split(s) == split_from(s, 1, <<>>)

RECURSIVE lstrip(_)
lstrip(s) == IF s # <<>> /\ IsSpace(Head(s)) THEN lstrip(Tail(s)) ELSE s

RECURSIVE rstrip(_)
rstrip(s) ==
    IF s # <<>> /\ IsSpace(s[Len(s)]) THEN rstrip(SubSeq(s, 1, Len(s) - 1)) ELSE s

\* get_text(strip=True) of an element with one text node
strip(s) == rstrip(lstrip(s))

Digits == <<"0", "1", "2", "3", "4", "5", "6", "7", "8", "9">>

IsDigit(c) == \E i \in DOMAIN Digits : Digits[i] = c

digit_val(c) == (CHOOSE i \in DOMAIN Digits : Digits[i] = c) - 1

RECURSIVE int_of(_)
int_of(ds) ==
    IF ds = <<>> THEN 0
    ELSE 10 * int_of(SubSeq(ds, 1, Len(ds) - 1)) + digit_val(ds[Len(ds)])

RECURSIVE digit_run(_, _)
digit_run(s, i) ==
    IF i <= Len(s) /\ IsDigit(s[i]) THEN <<s[i]>> \o digit_run(s, i + 1) ELSE <<>>

Min(S) == CHOOSE x \in S : \A y \in S : x <= y

S_newer_than ==
    <<"c", "[", "n", "e", "w", "e", "r", "_", "t", "h", "a", "n", "]", "=">>

\* re.search(r'c\[newer_than\]=(\d{4})-', post_link): [found, year]
search_newer_than(link) ==
    LET n == Len(S_newer_than)
        hits == {i \in 1 .. Len(link) :
                    /\ i + n + 4 <= Len(link)
                    /\ SubSeq(link, i, i + n - 1) = S_newer_than
                    /\ \A k \in 0 .. 3 : IsDigit(link[i + n + k])
                    /\ link[i + n + 4] = "-"}
    IN  IF hits = {} THEN [found |-> FALSE, year |-> 0]
        ELSE [found |-> TRUE,
              year |-> int_of(SubSeq(link, Min(hits) + n, Min(hits) + n + 3))]

S_post ==
    <<"p", "o", "s", "t", "-">>

\* re.search(r'post-(\d+)', post_link): [found, id]
search_post_id(link) ==
    LET n == Len(S_post)
        hits == {i \in 1 .. Len(link) :
                    /\ i + n <= Len(link)
                    /\ SubSeq(link, i, i + n - 1) = S_post
                    /\ IsDigit(link[i + n])}
    IN  IF hits = {} THEN [found |-> FALSE, id |-> <<>>]
        ELSE [found |-> TRUE, id |-> digit_run(link, Min(hits) + n)]

BASE_URL ==
    <<"h", "t", "t", "p", "s", ":", "/", "/", "d", "e", "s", "i", "f", "a",
      "k", "e", "s", ".", "c", "o", "m">>

S_https ==
    <<"h", "t", "t", "p", "s", ":">>

\* urljoin(BASE_URL, src) if src.startswith("/") else src
resolve(src) ==
    IF startswith(src, <<"/", "/">>) THEN S_https \o src
    ELSE IF startswith(src, <<"/">>) THEN BASE_URL \o src
    ELSE src

S_gif ==
    <<".", "g", "i", "f">>

S_data_image ==
    <<"d", "a", "t", "a", ":", "i", "m", "a", "g", "e">>

S_data ==
    <<"d", "a", "t", "a", ":">>

S_award_icons ==
    <<"a", "d", "d", "o", "n", "f", "l", "a", "r", "e", "/", "a", "w", "a",
      "r", "d", "s", "y", "s", "t", "e", "m", "/", "i", "c", "o", "n", "s",
      "/">>

S_avatars ==
    <<"a", "v", "a", "t", "a", "r", "s">>

S_badges ==
    <<"o", "z", "z", "m", "o", "d", "z", "_", "b", "a", "d", "g", "e", "s",
      "_", "b", "a", "d", "g", "e">>

S_premium ==
    <<"p", "r", "e", "m", "i", "u", "m">>

S_likes ==
    <<"l", "i", "k", "e", "s">>

\* The keyword list with "badge" for "ozzmodz_badges_badge"
DenyKeywords_Badge ==
    {S_avatars, <<"b", "a", "d", "g", "e">>, S_premium, S_likes}

\* Lines 338, 354, 370: the keyword list
DenyKeywords == {S_avatars, S_badges, S_premium, S_likes}

\* The keywords looked for in src itself, not in src.lower()
unwanted_CaseSensitive(src, data_prefix) ==
    \/ startswith(src, data_prefix)
    \/ contains(src, S_award_icons)
    \/ \E keyword \in DenyKeywords : contains(src, keyword)

\* Lines 337-338 (img) and 353-354, 369-370 (video, source): unwanted media
unwanted(src, data_prefix) ==
    \/ startswith(src, data_prefix)
    \/ contains(src, S_award_icons)
    \/ \E keyword \in DenyKeywords : contains(lower(src), keyword)

\* Line 336
image_type(src) == IF endswith(lower(src), S_gif) THEN "gifs" ELSE "images"

(***************************************************************************)
(* make_request (app.py, lines 41-66; bot.py, lines 62-83): one step an    *)
(* attempt of the loop.  What scraper.request and raise_for_status do is   *)
(* the network's and the library's choice: a response ("ok"), a            *)
(* RequestException whose text holds '503 Service Unavailable' ("503"),    *)
(* any other RequestException, or an exception that is no                  *)
(* RequestException ("Exception").  With 'timeout' among the keyword       *)
(* options the call of lines 50-55 passes timeout twice and raises         *)
(* TypeError.                                                              *)
(***************************************************************************)
MAX_RETRIES == 3

initial_timeout == 8

timeout_increment == 5

SLEEP_503 == 10

AttemptResults == {"ok", "503", "RequestException", "Exception"}

\* Line 48
current_timeout(attempt) == initial_timeout + (attempt * timeout_increment)

\* Line 59: except requests.exceptions.RequestException
IsRequestException(result) == result \in {"503", "RequestException"}

\* Lines 61-66: the seconds slept after a failed attempt
sleep_after(attempt, result) ==
    (IF result = "503" THEN SLEEP_503 ELSE 0)
    + (IF attempt = MAX_RETRIES - 1 THEN 0 ELSE 1 * (attempt + 1))

\* Lines 47-66: one pass of the loop; attempt counts from 0
Attempt ==
    /\ reqPc = "attempt"
    /\ LET attempt == Len(reqLog)
       IN  /\ attempt < MAX_RETRIES
           /\ \E answer \in AttemptResults :
                LET result == IF reqArgs.timeout THEN "TypeError" ELSE answer
                IN  /\ reqLog' = Append(reqLog,
                                        [timeout |-> current_timeout(attempt),
                                         result |-> result])
                    /\ IF result = "ok"
                       THEN /\ reqPc' = "returned"
                            /\ UNCHANGED <<reqSlept, reqError>>
                       ELSE IF IsRequestException(result)
                       THEN /\ reqSlept' = reqSlept + sleep_after(attempt, result)
                            /\ IF attempt = MAX_RETRIES - 1
                               THEN reqPc' = "raised"
                                    /\ reqError' = "ScraperError"
                               ELSE UNCHANGED <<reqPc, reqError>>
                       ELSE /\ reqPc' = "raised"
                            /\ reqError' = result
                            /\ UNCHANGED reqSlept
    /\ UNCHANGED reqArgs

(***************************************************************************)
(* The site: what a post page holds once parsed.  An article is one post   *)
(* block; time is its <time class="u-dt"> tag (tag: present with a         *)
(* datetime attribute, ok: the attribute parses, date: its date).          *)
(***************************************************************************)
Article(post_id, text, author, time, imgs, videos, sources) ==
    [exists |-> TRUE, post_id |-> post_id, text |-> text, author |-> author,
     time |-> time, imgs |-> imgs, videos |-> videos, sources |-> sources]

NoTime == [tag |-> FALSE, ok |-> FALSE, date |-> 0]

BadTime == [tag |-> TRUE, ok |-> FALSE, date |-> 0]

Time(date) == [tag |-> TRUE, ok |-> TRUE, date |-> date]

\* soup.find(...) that finds nothing: None
NoArticle ==
    [exists |-> FALSE, post_id |-> <<>>, text |-> <<>>, author |-> <<>>,
     time |-> NoTime, imgs |-> <<>>, videos |-> <<>>, sources |-> <<>>]

Page(title_div, h1, title, articles) ==
    [title_div |-> title_div, h1 |-> h1, title |-> title, articles |-> articles]

N_jane ==
    <<"J", "a", "n", "e", " ", "D", "o", "e">>

N_john ==
    <<"J", "o", "h", "n", " ", "R", "o", "e">>

\* a subject the search finds no thread for
N_nobody ==
    <<"N", "o", "b", "o", "d", "y">>

U_a ==
    <<"h", "t", "t", "p", "s", ":", "/", "/", "s", "i", "t", "e", "/", "a",
      ".", "j", "p", "g">>

U_icon ==
    <<"h", "t", "t", "p", "s", ":", "/", "/", "s", "i", "t", "e", "/", "i",
      "c", "o", "n", "s", "/", "b", "a", "d", "g", "e", ".", "p", "n", "g">>

U_award ==
    <<"h", "t", "t", "p", "s", ":", "/", "/", "s", "i", "t", "e", "/", "a",
      "d", "d", "o", "n", "f", "l", "a", "r", "e", "/", "a", "w", "a", "r",
      "d", "s", "y", "s", "t", "e", "m", "/", "i", "c", "o", "n", "s", "/",
      "b", "a", "d", "g", "e", ".", "p", "n", "g">>

U_premium ==
    <<"h", "t", "t", "p", "s", ":", "/", "/", "s", "i", "t", "e", "/", "P",
      "R", "E", "M", "I", "U", "M", "/", "p", ".", "j", "p", "g">>

U_avatar ==
    <<"/", "d", "a", "t", "a", "/", "a", "v", "a", "t", "a", "r", "s", "/",
      "m", "/", "1", ".", "j", "p", "g">>

U_gif ==
    <<"/", "d", "a", "t", "a", "/", "b", ".", "G", "I", "F">>

U_c ==
    <<"/", "/", "c", "d", "n", "/", "c", ".", "j", "p", "g">>

U_v ==
    <<"h", "t", "t", "p", "s", ":", "/", "/", "s", "i", "t", "e", "/", "v",
      ".", "m", "p", "4">>

U_ozzmodz ==
    <<"h", "t", "t", "p", "s", ":", "/", "/", "s", "i", "t", "e", "/", "o",
      "z", "z", "m", "o", "d", "z", "_", "b", "a", "d", "g", "e", "s", "_",
      "b", "a", "d", "g", "e", "/", "1", ".", "p", "n", "g">>


U_likes ==
    <<"/", "d", "a", "t", "a", "/", "L", "i", "k", "e", "s", "/", "v", ".",
      "m", "p", "4">>


U_datauri ==
    <<"d", "a", "t", "a", ":", "i", "m", "a", "g", "e", "/", "p", "n", "g",
      ";", "b", "a", "s", "e", "6", "4", ",", "A", "A", "A", "A">>

\* "Jane Doe (em dash) New Photos": the em dash is written "=", a character
\* that is no letter, no space and no hyphen
T_jane ==
    <<"J", "a", "n", "e", " ", "D", "o", "e", " ", "=", " ", "N", "e", "w",
      " ", "P", "h", "o", "t", "o", "s">>

T_mixed ==
    <<" ", "M", "i", "x", "e", "d", " ", "t", "h", "r", "e", "a", "d", " ">>

T_both ==
    <<"j", "o", "h", "n", "-", "r", "o", "e", " ", "a", "n", "d", " ", "j",
      "a", "n", "e">>

T_john ==
    <<"J", "o", "h", "n", " ", "R", "o", "e", " ", "p", "i", "c", "s">>


X_by_jane ==
    <<"n", "e", "w", " ", "s", "e", "t", " ", "o", "f", " ", "j", "a", "n",
      "e", " ", "d", "o", "e">>

X_other ==
    <<"t", "h", "a", "n", "k", "s", " ", "f", "o", "r", " ", "s", "h", "a",
      "r", "i", "n", "g">>

K_jane ==
    <<"h", "t", "t", "p", "s", ":", "/", "/", "d", "e", "s", "i", "f", "a",
      "k", "e", "s", ".", "c", "o", "m", "/", "t", "h", "r", "e", "a", "d",
      "s", "/", "j", "a", "n", "e", "-", "d", "o", "e", ".", "1", "/">>

K_mixed ==
    <<"h", "t", "t", "p", "s", ":", "/", "/", "d", "e", "s", "i", "f", "a",
      "k", "e", "s", ".", "c", "o", "m", "/", "t", "h", "r", "e", "a", "d",
      "s", "/", "m", "i", "x", "e", "d", ".", "2", "/", "p", "o", "s", "t",
      "-", "7">>

K_both ==
    <<"h", "t", "t", "p", "s", ":", "/", "/", "d", "e", "s", "i", "f", "a",
      "k", "e", "s", ".", "c", "o", "m", "/", "t", "h", "r", "e", "a", "d",
      "s", "/", "b", "o", "t", "h", ".", "3", "/">>

K_award ==
    <<"h", "t", "t", "p", "s", ":", "/", "/", "d", "e", "s", "i", "f", "a",
      "k", "e", "s", ".", "c", "o", "m", "/", "t", "h", "r", "e", "a", "d",
      "s", "/", "j", "a", "n", "e", "-", "d", "o", "e", ".", "4", "/">>

K_john ==
    <<"h", "t", "t", "p", "s", ":", "/", "/", "d", "e", "s", "i", "f", "a",
      "k", "e", "s", ".", "c", "o", "m", "/", "t", "h", "r", "e", "a", "d",
      "s", "/", "j", "o", "h", "n", "-", "r", "o", "e", ".", "6", "/">>


K_gone ==
    <<"h", "t", "t", "p", "s", ":", "/", "/", "d", "e", "s", "i", "f", "a",
      "k", "e", "s", ".", "c", "o", "m", "/", "t", "h", "r", "e", "a", "d",
      "s", "/", "g", "o", "n", "e", ".", "5", "/", "p", "o", "s", "t", "-",
      "9">>

\* The post pages of the model, by post link.
LinkUrl(l) ==
    CASE l = "jane" -> K_jane
      [] l = "mixed" -> K_mixed
      [] l = "both" -> K_both
      [] l = "award" -> K_award
      [] l = "john" -> K_john
      [] l = "gone" -> K_gone

PostPage(l) ==
    CASE l = "jane" ->
            Page(TRUE, TRUE, T_jane,
                 <<Article(<<"1">>, X_other, N_john, Time(20200105),
                           <<U_a, U_icon>>, <<>>, <<>>)>>)
      [] l = "award" ->
            Page(TRUE, TRUE, T_jane,
                 <<Article(<<"4">>, X_other, N_john, Time(20200105),
                           <<U_a, U_award>>, <<>>, <<>>)>>)
      [] l = "mixed" ->
            Page(TRUE, TRUE, T_mixed,
                 <<Article(<<"6">>, X_other, N_john, Time(20191230),
                           <<U_c>>, <<>>, <<>>),
                   Article(<<"7">>, X_by_jane, N_john, Time(20200112),
                           <<U_a, U_avatar, U_premium, U_ozzmodz>>,
                           <<U_v, U_likes>>, <<>>)>>)
      [] l = "both" ->
            Page(TRUE, TRUE, T_both,
                 <<Article(<<"8">>, X_other, N_jane, BadTime,
                           <<U_a, U_gif, U_datauri>>, <<>>, <<>>),
                   Article(<<"9">>, X_other, N_john, Time(20200105),
                           <<U_c>>, <<U_v>>, <<U_v>>)>>)
      [] l = "john" ->
            Page(TRUE, TRUE, T_john,
                 <<Article(<<"3">>, X_other, N_jane, Time(20200105),
                           <<U_a>>, <<>>, <<>>)>>)
      [] l = "gone" ->
            Page(TRUE, TRUE, T_jane,
                 <<Article(<<"8">>, X_other, N_jane, Time(20200105),
                           <<U_c>>, <<>>, <<>>)>>)

(***************************************************************************)
(* process_post (app.py), lines 283-332: from the fetched page to the      *)
(* media candidates of the matching blocks, in the order the loops at      *)
(* lines 334-380 meet them.  An item is [type, src, date].                 *)
(***************************************************************************)
Item(type, src, date) == [type |-> type, src |-> src, date |-> date]

\* Lines 334-340: the candidates of the img tags of one block
RECURSIVE img_items(_, _, _)
img_items(srcs, i, date) ==
    IF i > Len(srcs) THEN <<>>
    ELSE LET src == resolve(srcs[i])
         IN  (IF unwanted(src, S_data_image) THEN <<>>
              ELSE <<Item(image_type(src), src, date)>>)
             \o img_items(srcs, i + 1, date)

\* Lines 350-356 and 366-372: the candidates of the video or source tags
RECURSIVE video_items(_, _, _)
video_items(srcs, i, date) ==
    IF i > Len(srcs) THEN <<>>
    ELSE LET src == resolve(srcs[i])
         IN  (IF unwanted(src, S_data) THEN <<>>
              ELSE <<Item("videos", src, date)>>)
             \o video_items(srcs, i + 1, date)

\* Lines 268-278: extract_post_date, None as 0
extract_post_date(article) ==
    IF article.exists /\ article.time.tag /\ article.time.ok
    THEN article.time.date ELSE 0

\* The test of line 328 left out
OutsideYears_Never(post_year, start_year, end_year) == FALSE

\* Line 328: the block is outside the requested years
OutsideYears(post_year, start_year, end_year) ==
    post_year < start_year \/ post_year > end_year

\* Lines 324-380 without the insertions: the candidates of the blocks from
\* the i-th on.  A block that is None raises at line 334 and ends the post.
RECURSIVE article_items(_, _, _, _, _)
article_items(articles, i, year, start_year, end_year) ==
    IF i > Len(articles) THEN <<>>
    ELSE LET article == articles[i]
             d == extract_post_date(article)
             post_date == IF d # 0 THEN d ELSE Date(year, 1, 1)
             post_year == YearOf(post_date)
         IN  IF OutsideYears(post_year, start_year, end_year)
             THEN article_items(articles, i + 1, year, start_year, end_year)
             ELSE IF ~article.exists THEN <<>>
             ELSE img_items(article.imgs, 1, post_date)
                  \o video_items(article.videos, 1, post_date)
                  \o video_items(article.sources, 1, post_date)
                  \o article_items(articles, i + 1, year, start_year, end_year)

\* Line 305: soup.find('article', {'data-content': 'post-N', 'id': 'js-post-N'})
find_article(page, id) ==
    LET hits == {i \in DOMAIN page.articles : page.articles[i].post_id = id}
    IN  IF hits = {} THEN NoArticle ELSE page.articles[Min(hits)]

\* Lines 292-302: the page title matches a part of the username
title_matches(page_title, username) ==
    LET username_parts == split(lower(username))
    IN  /\ page_title # <<>>
        /\ \E i \in DOMAIN username_parts :
              \/ startswith(page_title, username_parts[i])
              \/ endswith(page_title, username_parts[i])
              \/ contains(replace(page_title, "-", " "), username_parts[i])

\* Lines 315-318: the block names the user in its text or its author
block_matches(article, username) ==
    /\ article.exists
    /\ \/ contains(lower(article.text), lower(username))
       \/ contains(lower(article.author), lower(username))

\* Lines 286-332: the candidates of one fetched post page.
post_items(post_link, page, username, start_year, end_year) ==
    LET year_match == search_newer_than(post_link)
        year == IF year_match.found THEN year_match.year ELSE end_year
        page_title == IF page.title_div THEN lower(strip(page.title)) ELSE <<>>
        post_id == search_post_id(post_link)
        articles == IF post_id.found THEN <<find_article(page, post_id.id)>>
                    ELSE page.articles
        Matches(a) == block_matches(a, username)
        filtered_articles == IF title_matches(page_title, username) THEN articles
                             ELSE SelectSeq(articles, Matches)
    IN  IF page.title_div /\ ~page.h1 THEN <<>>
        ELSE IF articles = <<>> THEN <<>>
        ELSE article_items(filtered_articles, 1, year, start_year, end_year)

(***************************************************************************)
(* The worker pool (app.py): every future of the current list and the      *)
(* task behind it.  A page task is fetch_page_data(url, page), a post task *)
(* is process_post(link, username, ...).  The lists of the model are       *)
(* shorter than MAX_WORKERS, so a pending task waits for no free worker.   *)
(***************************************************************************)
PageTask(username, page) ==
    [kind |-> "page", username |-> username, page |-> page, link |-> "",
     state |-> "pending", yielded |-> FALSE, pc |-> "fetch", fetched |-> FALSE,
     items |-> <<>>, i |-> 0, links |-> <<>>]

PostTask(username, link) ==
    [kind |-> "post", username |-> username, page |-> 0, link |-> link,
     state |-> "pending", yielded |-> FALSE, pc |-> "fetch", fetched |-> FALSE,
     items |-> <<>>, i |-> 0, links |-> <<>>]

\* What one search page of a subject lists (lines 254-257), by subject
SearchResults(username) ==
    IF username = N_jane THEN {<<"award", "mixed">>}
    ELSE IF username = N_john THEN {<<"john", "gone">>}
    ELSE {<<>>}

\* A worker takes a pending future: Future.set_running_or_notify_cancel
TaskStart(k) ==
    /\ tasks[k].state = "pending"
    /\ tasks' = [tasks EXCEPT ![k].state = "running"]
    /\ UNCHANGED <<global_seen, media_by_date_per_username>>

\* Lines 248-266: fetch_page_data in a worker; a failed fetch returns ([], 1)
PageFetch(k) ==
    /\ tasks[k].kind = "page"
    /\ tasks[k].state = "running"
    /\ \E links \in SearchResults(tasks[k].username) \union {<<>>} :
          tasks' = [tasks EXCEPT ![k].state = "done", ![k].links = links,
                                 ![k].fetched = (links # <<>>)]
    /\ UNCHANGED <<global_seen, media_by_date_per_username>>

\* The item of the post task the loops at lines 334-380 stand on
CurrentItem(k) == tasks[k].items[tasks[k].i]

\* The loops move to the next candidate, or process_post returns
NextItem(k) ==
    IF tasks[k].i < Len(tasks[k].items)
    THEN [tasks EXCEPT ![k].i = @ + 1, ![k].pc = "check"]
    ELSE [tasks EXCEPT ![k].state = "done", ![k].pc = "return"]

\* Lines 283-332: the fetch and the selection of the blocks.  A failed
\* make_request raises ScraperError, which line 382 catches.
PostFetch(k) ==
    /\ tasks[k].kind = "post"
    /\ tasks[k].state = "running"
    /\ tasks[k].pc = "fetch"
    /\ \E ok \in BOOLEAN :
          LET items == IF ok
                       THEN post_items(LinkUrl(tasks[k].link),
                                       PostPage(tasks[k].link),
                                       tasks[k].username,
                                       request.start_year, request.end_year)
                       ELSE <<>>
          IN  tasks' = IF items = <<>>
                       THEN [tasks EXCEPT ![k].state = "done",
                                          ![k].pc = "return",
                                          ![k].fetched = ok]
                       ELSE [tasks EXCEPT ![k].items = items, ![k].i = 1,
                                          ![k].pc = "check",
                                          ![k].fetched = ok]
    /\ UNCHANGED <<global_seen, media_by_date_per_username>>

\* The test of line 341 taken as passed whatever the seen-set holds
PostCheck_Unseen(k) ==
    /\ tasks[k].state = "running"
    /\ tasks[k].pc = "check"
    /\ tasks' = [tasks EXCEPT ![k].pc = "add"]
    /\ UNCHANGED <<global_seen, media_by_date_per_username>>

\* Lines 341, 357, 373: if src not in global_seen[media_type]
PostCheck(k) ==
    /\ tasks[k].state = "running"
    /\ tasks[k].pc = "check"
    /\ tasks' = IF CurrentItem(k).src \in global_seen[CurrentItem(k).type]
                THEN NextItem(k)
                ELSE [tasks EXCEPT ![k].pc = "add"]
    /\ UNCHANGED <<global_seen, media_by_date_per_username>>

\* Lines 342, 358, 374: global_seen[media_type].add(src)
PostAdd(k) ==
    /\ tasks[k].state = "running"
    /\ tasks[k].pc = "add"
    /\ global_seen' = [global_seen EXCEPT ![CurrentItem(k).type] =
                                              @ \union {CurrentItem(k).src}]
    /\ tasks' = [tasks EXCEPT ![k].pc = "date"]
    /\ UNCHANGED media_by_date_per_username

\* The dict of one media type of the task's subject
media_by_date(k) ==
    media_by_date_per_username[tasks[k].username][CurrentItem(k).type]

\* Lines 343, 359, 375: if post_date not in media_by_date[media_type]
PostDateCheck(k) ==
    /\ tasks[k].state = "running"
    /\ tasks[k].pc = "date"
    /\ tasks' = IF CurrentItem(k).date \in DOMAIN media_by_date(k)
                THEN [tasks EXCEPT ![k].pc = "append"]
                ELSE [tasks EXCEPT ![k].pc = "create"]
    /\ UNCHANGED <<global_seen, media_by_date_per_username>>

\* Lines 344, 360, 376: media_by_date[media_type][post_date] = []
PostCreate(k) ==
    /\ tasks[k].state = "running"
    /\ tasks[k].pc = "create"
    /\ media_by_date_per_username' =
          [media_by_date_per_username EXCEPT
              ![tasks[k].username][CurrentItem(k).type] =
                  (CurrentItem(k).date :> <<>>) @@ @]
    /\ tasks' = [tasks EXCEPT ![k].pc = "append"]
    /\ UNCHANGED global_seen

\* Lines 345, 361, 377: media_by_date[media_type][post_date].append(src)
PostAppend(k) ==
    /\ tasks[k].state = "running"
    /\ tasks[k].pc = "append"
    /\ media_by_date_per_username' =
          [media_by_date_per_username EXCEPT
              ![tasks[k].username][CurrentItem(k).type][CurrentItem(k).date] =
                  Append(@, CurrentItem(k).src)]
    /\ tasks' = NextItem(k)
    /\ UNCHANGED global_seen

\* Lines 729-734: the stores of a request and its one seen-set
EmptyStore == [images |-> <<>>, videos |-> <<>>, gifs |-> <<>>]

NewStores(usernames) ==
    [u \in {usernames[i] : i \in DOMAIN usernames} |-> EmptyStore]

NewSeen == [images |-> {}, videos |-> {}, gifs |-> {}]

\* The one chat of the model
Chat == "chat"

\* What the workers leave alone
handlerVars ==
    <<request, limits, active_tasks, batchNo, pc, username_idx, search_links,
      urls_to_process, page_total, all_post_links, seen_links, outcome,
      cancel_pc, cancel_futures, cancel_results>>

\* process_post in a worker, one step
PostStep(k) ==
    \/ PostFetch(k)
    \/ PostCheck(k)
    \/ PostAdd(k)
    \/ PostDateCheck(k)
    \/ PostCreate(k)
    \/ PostAppend(k)

\* make_request called once, for a URL, a method and keyword options
InitReq ==
    /\ reqArgs \in [url : {K_jane, K_mixed, K_both}, method : {"get", "post"},
                    timeout : BOOLEAN]
    /\ reqPc = "attempt"
    /\ reqLog = <<>>
    /\ reqSlept = 0
    /\ reqError = "none"

ReqInit == InitReq /\ IdleSplit /\ IdleGen /\ IdleCrawl /\ IdleRival

NextReq == Attempt /\ UNCHANGED <<splitVars, genVars, crawlVars, rivalVars>>

SpecReq == ReqInit /\ [][NextReq]_vars

(***************************************************************************)
(* One batch of process_post tasks, as lines 780-788 submit it, run by the *)
(* pool while the handler waits at line 793.                               *)
(***************************************************************************)
PostBatches ==
    {<<"jane">>, <<"award">>, <<"jane", "mixed">>, <<"both">>,
     <<"gone", "both">>, <<"jane", "award">>}

PostYears == 2019 .. 2021

InitPost ==
    /\ request \in [usernames : {<<N_jane>>, <<N_john>>},
                    start_year : PostYears, end_year : PostYears]
    /\ \E batch \in PostBatches :
          /\ tasks = [k \in DOMAIN batch |->
                         PostTask(request.usernames[1], batch[k])]
          /\ all_post_links = batch
    /\ limits = [urls |-> 0, pages |-> 0, cancels |-> 0]
    /\ active_tasks = (Chat :> 1)
    /\ batchNo = 1
    /\ pc = "await_posts"
    /\ username_idx = 1
    /\ search_links = <<>>
    /\ urls_to_process = 0
    /\ page_total = 0
    /\ seen_links = {}
    /\ media_by_date_per_username = NewStores(request.usernames)
    /\ global_seen = NewSeen
    /\ outcome = "none"
    /\ cancel_pc = "returned"
    /\ cancel_futures = 0
    /\ cancel_results = <<>>

PostInit == InitPost /\ IdleSplit /\ IdleGen /\ IdleReq /\ IdleRival

NextPost ==
    /\ \E k \in DOMAIN tasks : TaskStart(k) \/ PostStep(k)
    /\ UNCHANGED <<splitVars, genVars, handlerVars, reqVars, rivalVars>>

SpecPost == PostInit /\ [][NextPost]_vars

(***************************************************************************)
(* The same batches with the pool running one task at a time, in any order *)
(* (a pool of one worker frees the order of completion only).              *)
(***************************************************************************)
OneAtATime(k) == \A j \in DOMAIN tasks \ {k} : tasks[j].state # "running"

NextOrder ==
    /\ \E k \in DOMAIN tasks : OneAtATime(k) /\ (TaskStart(k) \/ PostStep(k))
    /\ UNCHANGED <<splitVars, genVars, handlerVars, reqVars, rivalVars>>

SpecOrder == PostInit /\ [][NextOrder]_vars

(***************************************************************************)
(* process_post called twice in a row for one post link, with the same     *)
(* store and the same seen-set: the second call starts when the first has  *)
(* returned.                                                               *)
(***************************************************************************)
RerunLinks == {"jane", "award", "mixed", "both", "john", "gone"}

InitRerun ==
    /\ request \in [usernames : {<<N_jane>>, <<N_john>>},
                    start_year : PostYears, end_year : PostYears]
    /\ \E link \in RerunLinks :
          /\ tasks = [k \in 1 .. 2 |-> PostTask(request.usernames[1], link)]
          /\ all_post_links = <<link>>
    /\ limits = [urls |-> 0, pages |-> 0, cancels |-> 0]
    /\ active_tasks = (Chat :> 1)
    /\ batchNo = 1
    /\ pc = "await_posts"
    /\ username_idx = 1
    /\ search_links = <<>>
    /\ urls_to_process = 0
    /\ page_total = 0
    /\ seen_links = {}
    /\ media_by_date_per_username = NewStores(request.usernames)
    /\ global_seen = NewSeen
    /\ outcome = "none"
    /\ cancel_pc = "returned"
    /\ cancel_futures = 0
    /\ cancel_results = <<>>

RerunInit == InitRerun /\ IdleSplit /\ IdleGen /\ IdleReq /\ IdleRival

\* the first call, then the second
FirstRun == TaskStart(1) \/ PostStep(1)

SecondRun == tasks[1].state = "done" /\ (TaskStart(2) \/ PostStep(2))

NextRerun ==
    /\ FirstRun \/ SecondRun
    /\ UNCHANGED <<splitVars, genVars, handlerVars, reqVars, rivalVars>>

SpecRerun == RerunInit /\ [][NextRerun]_vars

(***************************************************************************)
(* telegram_webhook (app.py), lines 703-884: the handler of one crawl      *)
(* request of the chat, statement by statement where another thread can    *)
(* come between.                                                           *)
(***************************************************************************)
\* Bounds of the crawl model: the windows split_url returns for one search
\* window, the pages the unpaged fetch reports, the /stop messages sent.
MaxUrls == 1

MaxPages == 2

MaxCancels == 2

\* datetime.now() while the crawl runs: 2020-01-10
CrawlNow == date_dt(Date(2020, 1, 10))

\* The requests of the model
CrawlRequests ==
    {[usernames |-> <<N_jane, N_john>>, start_year |-> 2020,
      end_year |-> 2021],
     [usernames |-> <<N_jane>>, start_year |-> 2021, end_year |-> 2021]}

\* chat_id in active_tasks
Registered == Chat \in DOMAIN active_tasks

\* del active_tasks[chat_id]
Unregistered == [c \in DOMAIN active_tasks \ {Chat} |-> active_tasks[c]]

username == request.usernames[username_idx]

\* What the handler leaves alone unless it says otherwise
cancelVars == <<cancel_pc, cancel_futures, cancel_results>>

storeVars == <<media_by_date_per_username, global_seen>>

loopVars ==
    <<username_idx, search_links, urls_to_process, page_total,
      all_post_links, seen_links>>

\* Lines 703-734: the request is refused while the chat has an entry;
\* otherwise the pool, the entry (executor, []), the stores and the seen-set
Start ==
    /\ pc = "request"
    /\ IF Registered
       THEN /\ pc' = "returned"
            /\ outcome' = "already_running"
            /\ UNCHANGED <<active_tasks, username_idx, storeVars>>
       ELSE /\ active_tasks' = (Chat :> 0) @@ active_tasks
            /\ media_by_date_per_username' = NewStores(request.usernames)
            /\ global_seen' = NewSeen
            /\ username_idx' = 1
            /\ pc' = "subject"
            /\ UNCHANGED outcome
    /\ UNCHANGED <<request, limits, batchNo, tasks, search_links, urls_to_process,
                   page_total, all_post_links, seen_links, cancelVars>>

\* Lines 736-749: the next subject and its search windows
Subject ==
    /\ pc = "subject"
    /\ IF username_idx > Len(request.usernames)
       THEN /\ pc' = "finish"
            /\ UNCHANGED loopVars
       ELSE LET links == generate_links(request.start_year,
                                        request.end_year, CrawlNow)
            IN  /\ all_post_links' = <<>>
                /\ seen_links' = {}
                /\ search_links' = links
                /\ IF links = <<>>
                   THEN pc' = "subject" /\ username_idx' = username_idx + 1
                   ELSE pc' = "window" /\ UNCHANGED username_idx
                /\ UNCHANGED <<urls_to_process, page_total>>
    /\ UNCHANGED <<request, limits, active_tasks, batchNo, tasks, storeVars, outcome,
                   cancelVars>>

\* Lines 751-753: the next window, and the check of the registry
NextWindow ==
    /\ pc = "window"
    /\ IF search_links = <<>> THEN pc' = "posts" /\ UNCHANGED outcome
       ELSE IF ~Registered THEN pc' = "finally" /\ outcome' = "stopped"
       ELSE pc' = "split" /\ UNCHANGED outcome
    /\ UNCHANGED <<request, limits, active_tasks, batchNo, tasks, loopVars, storeVars,
                   cancelVars>>

\* Line 755: split_url returns one window or more (SpecSplit runs the
\* function itself); the handler uses their number and their URLs only
Split ==
    /\ pc = "split"
    /\ \E n \in 1 .. limits.urls : urls_to_process' = n
    /\ search_links' = Tail(search_links)
    /\ pc' = "url"
    /\ UNCHANGED <<request, limits, active_tasks, batchNo, tasks, username_idx,
                   page_total, all_post_links, seen_links, storeVars, outcome,
                   cancelVars>>

\* Lines 756-757: the next split window and its unpaged fetch, which
\* reports the number of pages (1 when the fetch fails)
Url ==
    /\ pc = "url"
    /\ IF urls_to_process = 0
       THEN pc' = "window" /\ UNCHANGED <<urls_to_process, page_total>>
       ELSE /\ urls_to_process' = urls_to_process - 1
            /\ \E n \in 1 .. limits.pages : page_total' = n
            /\ pc' = "submit_pages"
    /\ UNCHANGED <<request, limits, active_tasks, batchNo, tasks, username_idx,
                   search_links, all_post_links, seen_links, storeVars,
                   outcome, cancelVars>>

\* Lines 758-762: one page task a page, in a new list
SubmitPages ==
    /\ pc = "submit_pages"
    /\ tasks' = [page \in 1 .. page_total |-> PageTask(username, page)]
    /\ batchNo' = batchNo + 1
    /\ pc' = "install_pages"
    /\ UNCHANGED <<request, limits, active_tasks, loopVars, storeVars, outcome,
                   cancelVars>>

\* Lines 763 and 788: active_tasks[chat_id] = (executor, futures)
Install ==
    /\ pc \in {"install_pages", "install_posts"}
    /\ active_tasks' = (Chat :> batchNo) @@ active_tasks
    /\ pc' = IF pc = "install_pages" THEN "await_pages" ELSE "await_posts"
    /\ UNCHANGED <<request, limits, batchNo, tasks, loopVars, storeVars, outcome,
                   cancelVars>>

\* as_completed handing out a future whether it is finished or not
Completed_Any == {k \in DOMAIN tasks : ~tasks[k].yielded}

\* as_completed: the futures that are finished and not yet handed out
Completed ==
    {k \in DOMAIN tasks : /\ tasks[k].state \in {"done", "cancelled"}
                          /\ ~tasks[k].yielded}

\* The loop left as soon as one future was handed out
AllYielded_One == \E k \in DOMAIN tasks : tasks[k].yielded

\* as_completed is exhausted: the for loop of line 764 or 793 ends
AllYielded == \A k \in DOMAIN tasks : tasks[k].yielded

\* the links of a page that line 769 appends, in their order
RECURSIVE new_links(_, _)
new_links(links, seen) ==
    IF links = <<>> THEN <<>>
    ELSE (IF Head(links) \in seen THEN <<>> ELSE <<Head(links)>>)
         \o new_links(Tail(links), seen)

\* The page loop with line 769 appending every link of the page
AwaitPages_NoFilter ==
    /\ pc = "await_pages"
    /\ IF AllYielded
       THEN /\ pc' = "url"
            /\ UNCHANGED <<tasks, all_post_links, seen_links, outcome>>
       ELSE \E k \in Completed :
              /\ tasks' = [tasks EXCEPT ![k].yielded = TRUE]
              /\ IF ~Registered
                 THEN /\ pc' = "finally"
                      /\ outcome' = "stopped"
                      /\ UNCHANGED <<all_post_links, seen_links>>
                 ELSE IF tasks[k].state = "cancelled"
                 THEN /\ pc' = "finally"
                      /\ outcome' = "error"
                      /\ UNCHANGED <<all_post_links, seen_links>>
                 ELSE /\ all_post_links' = all_post_links \o tasks[k].links
                      /\ seen_links' =
                            seen_links
                            \union {tasks[k].links[i] :
                                       i \in DOMAIN tasks[k].links}
                      /\ UNCHANGED <<pc, outcome>>
    /\ UNCHANGED <<request, limits, active_tasks, batchNo, username_idx, search_links,
                   urls_to_process, page_total, storeVars, cancelVars>>

\* Lines 764-773: the page futures as they finish.  The result of a
\* cancelled future raises CancelledError, which only line 871 catches.
AwaitPages ==
    /\ pc = "await_pages"
    /\ IF AllYielded
       THEN /\ pc' = "url"
            /\ UNCHANGED <<tasks, all_post_links, seen_links, outcome>>
       ELSE \E k \in Completed :
              /\ tasks' = [tasks EXCEPT ![k].yielded = TRUE]
              /\ IF ~Registered
                 THEN /\ pc' = "finally"
                      /\ outcome' = "stopped"
                      /\ UNCHANGED <<all_post_links, seen_links>>
                 ELSE IF tasks[k].state = "cancelled"
                 THEN /\ pc' = "finally"
                      /\ outcome' = "error"
                      /\ UNCHANGED <<all_post_links, seen_links>>
                 ELSE /\ all_post_links' =
                            all_post_links
                            \o new_links(tasks[k].links, seen_links)
                      /\ seen_links' =
                            seen_links
                            \union {tasks[k].links[i] :
                                       i \in DOMAIN tasks[k].links}
                      /\ UNCHANGED <<pc, outcome>>
    /\ UNCHANGED <<request, limits, active_tasks, batchNo, username_idx, search_links,
                   urls_to_process, page_total, storeVars, cancelVars>>

\* The post tasks submitted and the subject left without waiting for them
Posts_NoWait ==
    /\ pc = "posts"
    /\ IF all_post_links = <<>>
       THEN UNCHANGED <<tasks, batchNo>>
       ELSE /\ tasks' = [k \in DOMAIN all_post_links |->
                            PostTask(username, all_post_links[k])]
            /\ batchNo' = batchNo + 1
    /\ username_idx' = username_idx + 1
    /\ pc' = "subject"
    /\ UNCHANGED <<request, limits, active_tasks, search_links, urls_to_process,
                   page_total, all_post_links, seen_links, storeVars, outcome,
                   cancelVars>>

\* Lines 775-787: no post, the next subject; else one process_post task a
\* link, in a new list
Posts ==
    /\ pc = "posts"
    /\ IF all_post_links = <<>>
       THEN /\ username_idx' = username_idx + 1
            /\ pc' = "subject"
            /\ UNCHANGED <<tasks, batchNo>>
       ELSE /\ tasks' = [k \in DOMAIN all_post_links |->
                            PostTask(username, all_post_links[k])]
            /\ batchNo' = batchNo + 1
            /\ pc' = "install_posts"
            /\ UNCHANGED username_idx
    /\ UNCHANGED <<request, limits, active_tasks, search_links, urls_to_process,
                   page_total, all_post_links, seen_links, storeVars, outcome,
                   cancelVars>>

\* The post loop with the failure of a post reaching line 871
AwaitPosts_Propagates ==
    /\ pc = "await_posts"
    /\ IF AllYielded
       THEN /\ username_idx' = username_idx + 1
            /\ pc' = "subject"
            /\ UNCHANGED <<tasks, outcome>>
       ELSE \E k \in Completed :
              /\ tasks' = [tasks EXCEPT ![k].yielded = TRUE]
              /\ IF ~Registered
                 THEN pc' = "finally" /\ outcome' = "stopped"
                 ELSE IF ~tasks[k].fetched
                 THEN pc' = "finally" /\ outcome' = "error"
                 ELSE UNCHANGED <<pc, outcome>>
              /\ UNCHANGED username_idx
    /\ UNCHANGED <<request, limits, active_tasks, batchNo, search_links,
                   urls_to_process, page_total, all_post_links, seen_links,
                   storeVars, cancelVars>>

\* Lines 793-812: the post futures as they finish; what a result raises is
\* logged (lines 807-812)
AwaitPosts ==
    /\ pc = "await_posts"
    /\ IF AllYielded
       THEN /\ username_idx' = username_idx + 1
            /\ pc' = "subject"
            /\ UNCHANGED <<tasks, outcome>>
       ELSE \E k \in Completed :
              /\ tasks' = [tasks EXCEPT ![k].yielded = TRUE]
              /\ IF ~Registered
                 THEN pc' = "finally" /\ outcome' = "stopped"
                 ELSE UNCHANGED <<pc, outcome>>
              /\ UNCHANGED username_idx
    /\ UNCHANGED <<request, limits, active_tasks, batchNo, search_links,
                   urls_to_process, page_total, all_post_links, seen_links,
                   storeVars, cancelVars>>

\* Lines 459-473 and 820-825: the number of media items in the stores
RECURSIVE SumLen(_, _)
SumLen(f, keys) ==
    IF keys = {} THEN 0
    ELSE LET key == CHOOSE x \in keys : TRUE
         IN  Len(f[key]) + SumLen(f, keys \ {key})

total_items ==
    LET users == DOMAIN media_by_date_per_username
        Count(u) == SumLen(media_by_date_per_username[u].images,
                           DOMAIN media_by_date_per_username[u].images)
                    + SumLen(media_by_date_per_username[u].videos,
                             DOMAIN media_by_date_per_username[u].videos)
                    + SumLen(media_by_date_per_username[u].gifs,
                             DOMAIN media_by_date_per_username[u].gifs)
        RECURSIVE Total(_)
        Total(us) == IF us = {} THEN 0
                     ELSE LET u == CHOOSE x \in us : TRUE
                          IN  Count(u) + Total(us \ {u})
    IN  Total(users)

\* Lines 814-834 and 845-855: the page and upload_file, which returns the
\* URL or raises ScraperError (line 845 reports the failed upload); with no
\* media, the "no media" message
Finish ==
    /\ pc = "finish"
    /\ IF total_items = 0 THEN outcome' = "no_media" /\ pc' = "finally"
       ELSE \E uploaded \in BOOLEAN :
               IF uploaded THEN pc' = "report" /\ UNCHANGED outcome
               ELSE outcome' = "upload_failed" /\ pc' = "finally"
    /\ UNCHANGED <<request, limits, active_tasks, batchNo, tasks, loopVars, storeVars,
                   cancelVars>>

\* Lines 835-850, upload_file having returned: send_telegram_message sends
\* the "Uploaded" message, or raises ScraperError after its last attempt
\* (line 652), which the except clause of line 845 takes for a failed upload
Report ==
    /\ pc = "report"
    /\ \E sent \in BOOLEAN :
          outcome' = IF sent THEN "uploaded" ELSE "upload_failed"
    /\ pc' = "finally"
    /\ UNCHANGED <<request, limits, active_tasks, batchNo, tasks, loopVars, storeVars,
                   cancelVars>>

\* The handler returning with no cleanup at all
Finally_NoCleanup ==
    /\ pc = "finally"
    /\ pc' = "returned"
    /\ UNCHANGED <<request, limits, active_tasks, batchNo, tasks, loopVars,
                   storeVars, outcome, cancelVars>>

\* Line 879: if chat_id in active_tasks
Finally ==
    /\ pc = "finally"
    /\ pc' = IF Registered THEN "finally_del" ELSE "returned"
    /\ UNCHANGED <<request, limits, active_tasks, batchNo, tasks, loopVars, storeVars,
                   outcome, cancelVars>>

\* Lines 880-882; a KeyError here reaches line 886, whose handler writes
\* the "Critical error" message
FinallyDel ==
    /\ pc = "finally_del"
    /\ IF Registered
       THEN active_tasks' = Unregistered /\ UNCHANGED outcome
       ELSE outcome' = "critical_error" /\ UNCHANGED active_tasks
    /\ pc' = "returned"
    /\ UNCHANGED <<request, limits, batchNo, tasks, loopVars, storeVars, cancelVars>>

(***************************************************************************)
(* cancel_task (app.py), lines 655-664, as the /stop handler runs it in    *)
(* its own thread (lines 686-691).                                         *)
(***************************************************************************)
\* One finished call: what it returned ("True", "False", or "KeyError" when
\* it raised), and for True whether the crawl handler stood in split_url
\* or in the unpaged fetch then
Returned(ret) ==
    Append(cancel_results,
           [ret |-> ret,
            in_split |-> (ret = "True" /\ pc \in {"split", "url"})])

crawlRest ==
    <<request, limits, batchNo, pc, loopVars, storeVars, outcome>>

\* Line 657: if chat_id in active_tasks, else line 664
CancelCall ==
    /\ cancel_pc = "idle"
    /\ Len(cancel_results) < limits.cancels
    /\ IF Registered
       THEN cancel_pc' = "lookup" /\ UNCHANGED cancel_results
       ELSE cancel_results' = Returned("False") /\ UNCHANGED cancel_pc
    /\ UNCHANGED <<active_tasks, tasks, cancel_futures, crawlRest>>

\* Line 658: executor, futures = active_tasks[chat_id]
CancelLookup ==
    /\ cancel_pc = "lookup"
    /\ IF Registered
       THEN /\ cancel_futures' = active_tasks[Chat]
            /\ cancel_pc' = "cancel"
            /\ UNCHANGED cancel_results
       ELSE /\ cancel_results' = Returned("KeyError")
            /\ cancel_pc' = "idle"
            /\ UNCHANGED cancel_futures
    /\ UNCHANGED <<active_tasks, tasks, crawlRest>>

\* Future.cancel(): a pending future becomes cancelled, any other stays
cancel(task) ==
    IF task.state = "pending" THEN [task EXCEPT !.state = "cancelled"]
    ELSE task

\* Lines 659-660: every future of the list that was read.  A list that is
\* no longer the last one created holds finished futures only, or none.
CancelFutures ==
    /\ cancel_pc = "cancel"
    /\ tasks' = IF cancel_futures = batchNo
                THEN [k \in DOMAIN tasks |-> cancel(tasks[k])]
                ELSE tasks
    /\ cancel_pc' = "del"
    /\ UNCHANGED <<active_tasks, cancel_futures, cancel_results, crawlRest>>

\* Lines 662-663: del active_tasks[chat_id]; return True
CancelDel ==
    /\ cancel_pc = "del"
    /\ IF Registered
       THEN /\ active_tasks' = Unregistered
            /\ cancel_results' = Returned("True")
       ELSE /\ cancel_results' = Returned("KeyError")
            /\ UNCHANGED active_tasks
    /\ cancel_pc' = "idle"
    /\ UNCHANGED <<tasks, cancel_futures, crawlRest>>

(***************************************************************************)
(* One crawl request of the chat, the /stop messages sent meanwhile, and   *)
(* the worker pool.                                                        *)
(***************************************************************************)
BeforeCrawl ==
    /\ active_tasks = <<>>
    /\ batchNo = 0
    /\ tasks = <<>>
    /\ pc = "request"
    /\ username_idx = 0
    /\ search_links = <<>>
    /\ urls_to_process = 0
    /\ page_total = 0
    /\ all_post_links = <<>>
    /\ seen_links = {}
    /\ media_by_date_per_username = <<>>
    /\ global_seen = NewSeen
    /\ outcome = "none"
    /\ cancel_pc = "idle"
    /\ cancel_futures = 0
    /\ cancel_results = <<>>

InitCrawl ==
    /\ request \in CrawlRequests
    /\ limits = [urls |-> MaxUrls, pages |-> MaxPages, cancels |-> MaxCancels]
    /\ BeforeCrawl

CrawlInit == InitCrawl /\ IdleSplit /\ IdleGen /\ IdleReq /\ IdleRival

Handler ==
    \/ Start
    \/ Subject
    \/ NextWindow
    \/ Split
    \/ Url
    \/ SubmitPages
    \/ Install
    \/ AwaitPages
    \/ Posts
    \/ AwaitPosts
    \/ Finish
    \/ Report
    \/ Finally
    \/ FinallyDel

Canceller ==
    \/ CancelCall
    \/ CancelLookup
    \/ CancelFutures
    \/ CancelDel

Worker ==
    /\ \E k \in DOMAIN tasks : TaskStart(k) \/ PageFetch(k) \/ PostStep(k)
    /\ UNCHANGED handlerVars

Next ==
    /\ Handler \/ Canceller \/ Worker
    /\ UNCHANGED <<splitVars, genVars, reqVars, rivalVars>>

Spec == CrawlInit /\ [][Next]_vars

(***************************************************************************)
(* The same handlers, workers and /stop messages in narrower bounds, for a *)
(* request that names one subject and for one that names two, the second   *)
(* of which the search finds nothing for.                                  *)
(***************************************************************************)
SoloUrls == 1

SoloPages == 2

SoloCancels == 1

SoloRequests ==
    {[usernames |-> <<N_john>>, start_year |-> 2020, end_year |-> 2021],
     [usernames |-> <<N_john, N_nobody>>, start_year |-> 2020,
      end_year |-> 2020]}

InitSolo ==
    /\ request \in SoloRequests
    /\ limits = [urls |-> SoloUrls, pages |-> SoloPages,
                 cancels |-> SoloCancels]
    /\ BeforeCrawl

SoloInit == InitSolo /\ IdleSplit /\ IdleGen /\ IdleReq /\ IdleRival

SpecSolo == SoloInit /\ [][Next]_vars

(***************************************************************************)
(* The crawl of SpecSolo with a second crawl request of the same chat,     *)
(* handled by telegram_webhook in a thread of its own (line 933 runs the   *)
(* server threaded).  Of the second handler the model keeps what it does   *)
(* to active_tasks: the test of line 703, the entry of line 726, the       *)
(* assignments of lines 763 and 788 and the cleanup of lines 878-882 and   *)
(* 895-898.  Its futures lists bear the serial number RivalList.           *)
(***************************************************************************)
RivalList == 0 - 1

crawlOwn ==
    <<request, limits, batchNo, tasks, pc, loopVars, storeVars, outcome,
      cancelVars>>

\* Line 703: refused while the chat has an entry; else on to line 720
RivalCheck ==
    /\ rival_pc = "request"
    /\ rival_pc' = IF Registered THEN "returned" ELSE "progress"
    /\ UNCHANGED active_tasks

\* Lines 720-726: the progress message is sent, then the entry is written
RivalCreate ==
    /\ rival_pc = "progress"
    /\ active_tasks' = (Chat :> RivalList) @@ active_tasks
    /\ rival_pc' = "crawl"

\* Lines 763 and 788 of the second handler
RivalInstall ==
    /\ rival_pc = "crawl"
    /\ active_tasks' = (Chat :> RivalList) @@ active_tasks
    /\ UNCHANGED rival_pc

\* Lines 878-882 of the second handler, or lines 895-898 after a KeyError
\* at line 882
RivalFinally ==
    /\ rival_pc = "crawl"
    /\ active_tasks' = IF Registered THEN Unregistered ELSE active_tasks
    /\ rival_pc' = "returned"

Rival ==
    /\ RivalCheck \/ RivalCreate \/ RivalInstall \/ RivalFinally
    /\ UNCHANGED <<crawlOwn, splitVars, genVars, reqVars>>

InitRival ==
    /\ InitSolo
    /\ rival_pc = "request"

RivalInit == InitRival /\ IdleSplit /\ IdleGen /\ IdleReq

NextRival == Next \/ Rival

SpecRival == RivalInit /\ [][NextRival]_vars

(***************************************************************************)
(* split_url of bot.py, lines 178-211, on the call stack of SpecSplit.  It *)
(* has no buffer and no test of the window: the probe requests the url as  *)
(* it is, and one handler (line 209) returns the window for whatever is    *)
(* raised, a failed probe or the recursion limit.                          *)
(***************************************************************************)
bot_split_body(f, probe) ==
    LET start_dt == strptime(f.s)
        end_dt == strptime(f.e)
        total_days == days_of(end_dt - start_dt)
        mid_dt == start_dt + timedelta(total_days \div 2)
        first_end == strftime(mid_dt - timedelta(1))
        second_start == strftime(mid_dt + timedelta(1))
        anc == Append(f.anc, <<f.s, f.e>>)
    IN  IF probe.kind # "pages"
        THEN [ret |-> <<Window(f.s, f.e, -1, "error")>>, calls |-> <<>>]
        ELSE IF probe.n < MAX_PAGES_PER_SEARCH
        THEN [ret |-> <<Window(f.s, f.e, probe.n, "under")>>, calls |-> <<>>]
        ELSE [ret |-> <<>>,
              calls |-> <<Frame(f.s, first_end, f.depth + 1, anc),
                          Frame(second_start, f.e, f.depth + 1, anc)>>]

\* One call: within the recursion limit the probe answers, past it
\* RecursionError is raised
BotSplitCall ==
    /\ splitStack # <<>>
    /\ \E probe \in (IF Head(splitStack).depth <= MaxDepth
                      THEN ProbeAnswers ELSE {RecursionError}) :
          LET f == Head(splitStack)
              r == bot_split_body(f, probe)
          IN  /\ splitStack' = r.calls \o Tail(splitStack)
              /\ splitOut' = splitOut \o r.ret
              /\ splitLast' = [s |-> f.s, e |-> f.e, depth |-> f.depth,
                               bs |-> f.s, be |-> f.e, probe |-> probe,
                               calls |-> r.calls]
    /\ UNCHANGED <<splitNow, splitRoot>>

NextBotSplit ==
    BotSplitCall /\ UNCHANGED <<genVars, crawlVars, reqVars, rivalVars>>

SpecBotSplit == SplitInit /\ [][NextBotSplit]_vars

(***************************************************************************)
(* generate_links of bot.py, lines 123-176, on the state of SpecGen.  Its  *)
(* table has twelve pairs; the start date is always of the loop's year and *)
(* the end date of the next year when "MM-DD" of the start sorts after     *)
(* that of the end (line 151); no range is dropped but one that starts     *)
(* after now.                                                              *)
(***************************************************************************)
bot_months ==
    << <<11, 28, 1, 3>>, <<10, 29, 12, 3>>, <<9, 28, 11, 3>>, <<8, 29, 10, 3>>,
       <<7, 29, 9, 3>>,  <<6, 28, 8, 3>>,   <<5, 29, 7, 3>>,  <<4, 28, 6, 3>>,
       <<3, 29, 5, 3>>,  <<2, 26, 4, 3>>,   <<1, 29, 3, 3>>,  <<12, 29, 2, 3>> >>

\* Lines 150-173: one pass of the inner loop
bot_generate_link(year, p, now) ==
    LET start_date == Date(year, p[1], p[2])
        end_year_adjusted == IF p[1] * 100 + p[2] > p[3] * 100 + p[4]
                             THEN year + 1 ELSE year
        end_date0 == Date(end_year_adjusted, p[3], p[4])
        start_dt == date_dt(start_date)
        end_dt == date_dt(end_date0)
        end_date == IF end_dt > now THEN dt_date(now) ELSE end_date0
    IN  IF start_dt > now THEN <<>>
        ELSE <<[year |-> year, start_date |-> start_date, end_date |-> end_date]>>

RECURSIVE bot_links_of_year(_, _, _)
bot_links_of_year(year, i, now) ==
    IF i > Len(bot_months) THEN <<>>
    ELSE bot_generate_link(year, bot_months[i], now)
         \o bot_links_of_year(year, i + 1, now)

RECURSIVE bot_links_from(_, _, _)
bot_links_from(year, start_year, now) ==
    IF year < start_year THEN <<>>
    ELSE bot_links_of_year(year, 1, now)
         \o bot_links_from(year - 1, start_year, now)

\* Lines 128-131 and 147-176
bot_generate_links(start_year, end_year, now) ==
    LET current_year == YearOf(dt_date(now))
        sy == IF start_year < MIN_YEAR THEN MIN_YEAR ELSE start_year
        ey == IF end_year > current_year THEN current_year ELSE end_year
    IN  bot_links_from(ey, sy, now)

BotGenCall ==
    /\ genPc = "call"
    /\ genLinks' = bot_generate_links(genArgs.start_year, genArgs.end_year,
                                      genNow)
    /\ genPc' = "done"
    /\ UNCHANGED <<genNow, genArgs>>

NextBotGen == BotGenCall /\ UNCHANGED <<splitVars, crawlVars, reqVars, rivalVars>>

SpecBotGen == GenInit /\ [][NextBotGen]_vars

(***************************************************************************)
(* Claims about split_url (app.py), checked under SpecSplit.               *)
(***************************************************************************)
RootValid == splitRoot.s < splitRoot.e

OutWindows == {splitOut[i] : i \in DOMAIN splitOut}

Span(w) == w.e - w.s

ProbedUnder(w) == w.pages >= 0 /\ w.pages < MAX_PAGES_PER_SEARCH

\* C4: split_url terminates for every input window and every page-count
\* oracle.  The answer to a probe depends on the request alone, so a call made
\* with the arguments of one of its own callers repeats that caller's
\* execution without end: termination requires that no pending call carries
\* the arguments of one of its callers.
C4_SplitTerminates ==
    \A i \in DOMAIN splitStack :
        \A j \in DOMAIN splitStack[i].anc :
            splitStack[i].anc[j] # <<splitStack[i].s, splitStack[i].e>>

\* C9 (as claimed): every returned window was probed and found under the page
\* ceiling, or spans at most one day.
C9_UnderCeilingOrIndivisible ==
    \A w \in OutWindows : ProbedUnder(w) \/ Span(w) <= 1

\* C9 (amended): every returned window was probed and found under the page
\* ceiling, or spans at most one day, or was returned unsplit by a failure
\* handler (its probe failed, or its call raised another error).
C9_UnderCeilingIndivisibleOrFailed ==
    \A w \in OutWindows :
        \/ ProbedUnder(w)
        \/ Span(w) <= 1
        \/ w.via \in {"probe_failed", "error"}

C9_Witness ==
    /\ splitDone
    /\ \E w \in OutWindows : w.via = "under" /\ Span(w) > 1
    /\ \E w \in OutWindows : w.via = "probe_failed" /\ Span(w) > 1

\* The days of the root call's buffered range [start - 3, end + 3], clamped to
\* [2010-01-01, now].
RootBufferedDays ==
    {d \in (splitRoot.s - BUFFER_DAYS) .. (splitRoot.e + BUFFER_DAYS) :
        d >= 0 /\ d <= strftime(splitNow)}

\* C10: for a valid input window, once split_url has returned, every day of
\* the buffered root range lies inside at least one returned window.
C10_NoGap ==
    (splitDone /\ RootValid) =>
        \A d \in RootBufferedDays : \E w \in OutWindows : w.s <= d /\ d <= w.e

C10_Witness ==
    /\ splitDone
    /\ RootValid
    /\ Len(splitOut) >= 3
    /\ Cardinality(RootBufferedDays) >= 10
    /\ \E w \in OutWindows : w.via = "probe_failed"

(***************************************************************************)
(* Claims about generate_links (app.py), checked under SpecGen.            *)
(***************************************************************************)
GenEmitted == {genLinks[i] : i \in DOMAIN genLinks}

\* C8: every emitted tuple has its emitted start_date strictly before its
\* emitted end_date (the end date as clipped to now), and its start date is not
\* after now.
C8_StartBeforeEnd ==
    genPc = "done" =>
        \A l \in GenEmitted :
            /\ l.start_date < l.end_date
            /\ date_dt(l.start_date) <= genNow

(***************************************************************************)
(* Claims about process_post, checked under SpecPost                       *)
(***************************************************************************)
\* The scenario: subject "Jane Doe", years 2020-2020, the one post
\* "Jane Doe (em dash) New Photos" with a.jpg and icons/badge.png, fetched
\* and processed to the end
JaneScenario ==
    /\ request = [usernames |-> <<N_jane>>, start_year |-> 2020,
                  end_year |-> 2020]
    /\ all_post_links = <<"jane">>
    /\ tasks[1].state = "done"
    /\ tasks[1].fetched

JaneStore == media_by_date_per_username[N_jane]

MediaTypes == {"images", "videos", "gifs"}

\* The URLs one subject's store holds under one media type
StoredUrls(u, type) ==
    LET by_date == media_by_date_per_username[u][type]
    IN  UNION {{by_date[d][i] : i \in DOMAIN by_date[d]} : d \in DOMAIN by_date}

\* C1: with the process_post tasks of a batch running concurrently, no URL
\* appears more than once across all date lists of one media type in one
\* subject's store.
C1_NoDuplicateUrl ==
    \A u \in DOMAIN media_by_date_per_username : \A type \in MediaTypes :
        LET by_date == media_by_date_per_username[u][type]
        IN  \A d1, d2 \in DOMAIN by_date :
              \A i \in DOMAIN by_date[d1] : \A j \in DOMAIN by_date[d2] :
                  by_date[d1][i] = by_date[d2][j] => (d1 = d2 /\ i = j)

\* a call of cancel_task has returned True
CancelReturnedTrue ==
    \E i \in DOMAIN cancel_results : cancel_results[i].ret = "True"

\* C2: when cancel_task returned True while the handler was inside
\* split_url or the unpaged fetch_page_data call, the crawl ends with the
\* 'stopped' outcome and never with another one.
C2_CancelledCrawlStops ==
    (/\ pc = "returned"
     /\ \E i \in DOMAIN cancel_results : cancel_results[i].in_split)
        => outcome = "stopped"

\* C3: each subject has its own seen-set: a URL stored for the first
\* subject and found in a processed post of the second subject is stored
\* for the second subject too.
C3_OwnSeenSet ==
    \A k \in DOMAIN tasks :
        (/\ tasks[k].kind = "post"
         /\ tasks[k].state = "done"
         /\ tasks[k].fetched
         /\ tasks[k].username = N_john)
        => \A i \in DOMAIN tasks[k].items :
              LET item == tasks[k].items[i]
              IN  item.src \in StoredUrls(N_jane, item.type)
                      => item.src \in StoredUrls(N_john, item.type)

\* C5: once cancel_task has returned True, the crawl submits no further
\* task to its pool.
C5_NoSubmitAfterCancel ==
    [][CancelReturnedTrue => batchNo' = batchNo]_vars

\* C6: a second cancel_task of the session, with no new crawl started
\* since the first returned True, returns False.
C6_SecondCancelFalse ==
    (Len(cancel_results) >= 2 /\ cancel_results[1].ret = "True")
        => cancel_results[2].ret = "False"

(***************************************************************************)
(* Claims about repeated process_post calls, checked under SpecRerun       *)
(***************************************************************************)
\* C11: once a first call of process_post has fetched and processed a post,
\* a second call on the same post with the same seen-set and store adds
\* nothing: the store and the seen-set stay as the first call left them.
C11_SecondRunAddsNothing ==
    [][(tasks[1].state = "done" /\ tasks[1].fetched)
           => UNCHANGED <<media_by_date_per_username, global_seen>>]_vars

C11_Witness ==
    /\ Len(tasks) = 2
    /\ all_post_links = <<"mixed">>
    /\ tasks[1].fetched /\ tasks[2].fetched
    /\ tasks[2].state = "done"
    /\ Len(tasks[2].items) = 2
    /\ U_v \in global_seen.videos

(***************************************************************************)
(* Claims about the stored URLs, checked under SpecPost                    *)
(***************************************************************************)
\* C12: in every reachable state no stored URL, of any subject and media
\* type, contains 'avatars', 'ozzmodz_badges_badge', 'premium' or 'likes'
\* in any letter case, and none contains 'addonflare/awardsystem/icons/'.
C12_NoDenylistedUrl ==
    \A u \in DOMAIN media_by_date_per_username : \A type \in MediaTypes :
        \A src \in StoredUrls(u, type) :
            /\ ~contains(src, S_award_icons)
            /\ \A keyword \in {S_avatars, S_badges, S_premium, S_likes} :
                  ~contains(lower(src), keyword)

\* the post with an avatar, a PREMIUM image, a badge and a Likes video has
\* been processed to its end and its other media are stored
C12_Witness ==
    /\ request.usernames = <<N_jane>>
    /\ all_post_links = <<"jane", "mixed">>
    /\ tasks[2].state = "done"
    /\ tasks[2].fetched
    /\ U_v \in StoredUrls(N_jane, "videos")
    /\ U_a \in StoredUrls(N_jane, "images")

(***************************************************************************)
(* Claims about make_request, checked under SpecReq                        *)
(***************************************************************************)
\* C13: make_request makes at most MAX_RETRIES attempts; it returns the
\* response of the first successful attempt; when all attempts failed it
\* raises ScraperError; it fails with no other error type.
C13_ResponseOrScraperError ==
    /\ Len(reqLog) <= MAX_RETRIES
    /\ reqPc = "returned" =>
          /\ reqLog[Len(reqLog)].result = "ok"
          /\ \A i \in 1 .. (Len(reqLog) - 1) : reqLog[i].result # "ok"
    /\ reqPc = "raised" =>
          /\ reqError = "ScraperError"
          /\ Len(reqLog) = MAX_RETRIES
          /\ \A i \in DOMAIN reqLog : reqLog[i].result # "ok"

(***************************************************************************)
(* Claims about one crawl of one subject, checked under SpecSolo           *)
(***************************************************************************)
\* C14: when the crawl handler has returned, by whatever outcome, and no
\* other crawl was started for the session, active_tasks holds no entry
\* for the session.
C14_NoEntryAfterReturn == pc = "returned" => ~Registered

\* the handler returned after a /stop took the entry away between the test
\* of line 879 and the deletion of line 882
C14_Witness ==
    /\ pc = "returned"
    /\ outcome = "critical_error"
    /\ batchNo > 0

(***************************************************************************)
(* Claims about one call of split_url, checked under SpecSplit             *)
(***************************************************************************)
\* the most recent call had a valid window and its probe gave a page count
LastProbed ==
    /\ splitLast.probe.kind = "pages"
    /\ strptime(splitLast.s) < strptime(splitLast.e)

\* total_days of the most recent call (line 212)
LastTotalDays ==
    days_of(buffered_end_dt(strptime(splitLast.e), splitNow)
            - buffered_start_dt(strptime(splitLast.s)))

\* C15 as stated: a call whose valid window is probed at the ceiling or
\* above bisects, and only a count strictly below the ceiling returns the
\* single buffered window.
C15_BisectsAtCeiling ==
    LastProbed =>
        (splitLast.probe.n >= MAX_PAGES_PER_SEARCH <=> Len(splitLast.calls) = 2)

\* C15 amended: a call whose valid window is probed at the ceiling or above
\* and whose buffered range spans more than 1 day bisects: it calls itself
\* once for each half, each half a valid window; a count strictly below the
\* ceiling, or a buffered range of at most 1 day, returns the single
\* buffered window without a further call.
C15_BisectsUnlessIndivisible ==
    LastProbed =>
          IF splitLast.probe.n >= MAX_PAGES_PER_SEARCH /\ LastTotalDays > 1
          THEN /\ Len(splitLast.calls) = 2
               /\ \A i \in 1 .. 2 : strptime(splitLast.calls[i].s)
                                       < strptime(splitLast.calls[i].e)
          ELSE /\ splitLast.calls = <<>>
               /\ splitOut # <<>>
               /\ splitOut[Len(splitOut)].s = splitLast.bs
               /\ splitOut[Len(splitOut)].e = splitLast.be

\* a half of a bisected window, probed at exactly the ceiling, is bisected
C15_Witness ==
    /\ LastProbed
    /\ splitLast.depth = 2
    /\ splitLast.probe = Pages(MAX_PAGES_PER_SEARCH)
    /\ Len(splitLast.calls) = 2

(***************************************************************************)
(* Claims about two crawl requests of one chat, checked under SpecRival    *)
(***************************************************************************)
\* cancel_task has been called for the chat, at any time
CancelInvoked == cancel_results # <<>> \/ cancel_pc # "idle"

\* C16: a crawl reports "stopped" only if cancel_task was invoked for its
\* chat; the start, the completion and the cleanup of another crawl do not
\* make it report "stopped".
C16_StoppedOnlyByCancel == outcome = "stopped" => CancelInvoked

(***************************************************************************)
(* Claims about one crawl, checked under SpecSolo                          *)
(***************************************************************************)
\* no cancel_task call has been made
NoCancel == cancel_results = <<>> /\ cancel_pc = "idle"

\* the links of a page task are in the subject's seen-set and post list
LinksCollected(k) ==
    \A i \in DOMAIN tasks[k].links :
        /\ tasks[k].links[i] \in seen_links
        /\ \E j \in DOMAIN all_post_links :
              all_post_links[j] = tasks[k].links[i]

\* the media of a post task went through lines 341-342
MediaCollected(k) ==
    \A i \in DOMAIN tasks[k].items :
        tasks[k].items[i].src \in global_seen[tasks[k].items[i].type]

\* C17: a page fetch or a post that fails does not abort the crawl.  With
\* no /stop, whatever fetches fail: the crawl never ends in the error or
\* the stopped outcome, the handler returns only when every task of the
\* last batch is done, the links of every page handed out are collected
\* and the media of every finished post are collected.
C17_FailureDoesNotAbort ==
    NoCancel =>
        /\ outcome \notin {"error", "stopped", "critical_error"}
        /\ pc \in {"finish", "finally", "finally_del", "returned"} =>
              \A k \in DOMAIN tasks :
                  tasks[k].state = "done" /\ tasks[k].yielded
        /\ \A k \in DOMAIN tasks :
              /\ (tasks[k].kind = "page" /\ tasks[k].yielded)
                     => LinksCollected(k)
              /\ (tasks[k].kind = "post" /\ tasks[k].state = "done")
                     => MediaCollected(k)

\* one post of the batch failed, its sibling's image is stored and the
\* crawl ended with the upload
C17_Witness ==
    /\ NoCancel
    /\ pc = "returned"
    /\ outcome = "uploaded"
    /\ \E k \in DOMAIN tasks : tasks[k].kind = "post" /\ ~tasks[k].fetched
    /\ \E k \in DOMAIN tasks :
          /\ tasks[k].kind = "post"
          /\ tasks[k].fetched
          /\ tasks[k].items # <<>>
          /\ MediaCollected(k)

\* the future of task k is finished: it returned, raised or was cancelled
Finished(k) == tasks[k].state \in {"done", "cancelled"}

\* C18: subjects are processed in sequence.  While the handler stands
\* between two batches (at the start of a subject, where generate_links is
\* called, at a window, in split_url, or about to submit page or post
\* tasks), every future created so far is finished; so generate_links for
\* the next subject is called, and its first task submitted, only after
\* every page and post future of the subject before.
C18_SubjectsInSequence ==
    pc \in {"subject", "window", "split", "url", "submit_pages", "posts"} =>
        \A k \in DOMAIN tasks : Finished(k)

\* the second subject is about to get its windows while the futures of
\* the first subject's posts, all finished, are the last ones created
C18_Witness ==
    /\ pc = "subject"
    /\ username_idx = 2
    /\ Len(request.usernames) = 2
    /\ tasks # <<>>
    /\ \A k \in DOMAIN tasks : tasks[k].kind = "post" /\ Finished(k)

\* C19: within a subject's crawl a post link is submitted to process_post
\* at most once: the subject's list of post links never holds a link
\* twice, and no two post tasks of a batch have the same link.
C19_LinkSubmittedOnce ==
    /\ \A i, j \in DOMAIN all_post_links :
          all_post_links[i] = all_post_links[j] => i = j
    /\ \A i, j \in DOMAIN tasks :
          (/\ tasks[i].kind = "post"
           /\ tasks[j].kind = "post"
           /\ tasks[i].link = tasks[j].link) => i = j

\* the post tasks of a subject whose links were listed by the pages of two
\* windows, the second window having two pages
C19_Witness ==
    /\ pc = "await_posts"
    /\ batchNo = 3
    /\ page_total = 2
    /\ Len(tasks) = 2
    /\ \A k \in DOMAIN tasks : tasks[k].kind = "post"

(***************************************************************************)
(* Claims about the windows of generate_links (app.py), checked under      *)
(* SpecGen                                                                 *)
(***************************************************************************)
\* the date of the clock
GenToday == dt_date(genNow)

\* the requested range is within 2010 .. the current year
GenRangeValid ==
    /\ MIN_YEAR <= genArgs.start_year
    /\ genArgs.start_year <= genArgs.end_year
    /\ genArgs.end_year <= YearOf(GenToday)

\* the calendar days from startYear-01-01 to min(endYear-12-31, today)
GenRequestedDays ==
    {d \in UNION {DatesOfYear(y) :
                     y \in genArgs.start_year .. genArgs.end_year} :
        d <= GenToday}

\* C20: for a year range within 2010 .. the current year, every calendar
\* day from startYear-01-01 to min(endYear-12-31, today) lies within
\* [start_date, end_date] of an emitted window.
C20_RangeCovered ==
    (genPc = "done" /\ GenRangeValid) =>
        \A d \in GenRequestedDays :
            \E l \in GenEmitted : l.start_date <= d /\ d <= l.end_date

\* three years requested on a day of late December, and windows emitted
C20_Witness ==
    /\ genPc = "done"
    /\ genArgs = [start_year |-> MIN_YEAR, end_year |-> GenNowYear]
    /\ GenToday = Date(GenNowYear, 12, 25)
    /\ genLinks # <<>>
    /\ GenRequestedDays # {}

(***************************************************************************)
(* Claims about the registry under /stop, checked under SpecSolo           *)
(***************************************************************************)
\* a call of cancel_task has deleted the chat's entry and returned True
CancelRemoved ==
    \E i \in DOMAIN cancel_results : cancel_results[i].ret = "True"

\* C21: once cancel_task has removed the chat's entry, the chat has no
\* entry again: the handler of the cancelled crawl does not write one at
\* line 763 or 788.
C21_NoEntryAfterRemoval == CancelRemoved => ~Registered

(***************************************************************************)
(* Claims about who writes the stores, checked under SpecPost              *)
(***************************************************************************)
\* C22: the seen-set and the stores are written by the handler's thread
\* only: a step of a task running in a pool worker leaves both unchanged.
C22_WorkersLeaveStores ==
    [][(\E k \in DOMAIN tasks : /\ tasks[k].state = "running"
                                /\ tasks'[k] # tasks[k])
          => UNCHANGED <<media_by_date_per_username, global_seen>>]_vars

(***************************************************************************)
(* Claims about the order of the posts of a batch, checked under SpecOrder *)
(***************************************************************************)
\* which URL is filed under which date, by media type, in a store
Filed(store) ==
    UNION {UNION {{[type |-> type, src |-> store[type][date][i],
                    date |-> date] : i \in DOMAIN store[type][date]} :
                  date \in DOMAIN store[type]} :
           type \in {"images", "videos", "gifs"}}

\* Lines 341-345 for a list of candidates, one after the other
RECURSIVE file_items(_, _)
file_items(items, filed) ==
    IF items = <<>> THEN filed
    ELSE LET it == Head(items)
             seen == \E f \in filed : f.type = it.type /\ f.src = it.src
         IN  file_items(Tail(items), IF seen THEN filed ELSE filed \union {it})

\* the candidates of the posts of the batch, in the order of the list
RECURSIVE batch_items(_)
batch_items(k) ==
    IF k > Len(tasks) THEN <<>> ELSE tasks[k].items \o batch_items(k + 1)

BatchProcessed ==
    \A k \in DOMAIN tasks : tasks[k].state = "done" /\ tasks[k].fetched

\* C23: when every post of the batch has been processed, one at a time in
\* whatever order, the store files each URL under the date it gets when
\* the posts are processed in the order of the list.
C23_OrderDoesNotMatter ==
    BatchProcessed =>
        Filed(media_by_date_per_username[request.usernames[1]])
            = file_items(batch_items(1), {})

(***************************************************************************)
(* Claims about where the fetches run, checked under SpecSolo              *)
(***************************************************************************)
\* the handler's thread is in split_url (line 755), which probes the window
\* by a make_request of its own
InSplitUrl == pc = "split"

\* the handler's thread is in fetch_page_data(url) (line 757)
InUnpagedFetch == pc = "url" /\ urls_to_process > 0

\* C24: the handler's thread performs no fetch itself: it is never in
\* split_url's probe nor in a fetch_page_data of its own.
C24_HandlerNeverFetches == ~InSplitUrl /\ ~InUnpagedFetch

(***************************************************************************)
(* Claims about the halves of a bisected window, checked under SpecSplit   *)
(***************************************************************************)
\* the buffered range of the outermost call (lines 177-188)
RootBuffered ==
    [s |-> strftime(buffered_start_dt(strptime(splitRoot.s))),
     e |-> strftime(buffered_end_dt(strptime(splitRoot.e), splitNow))]

\* C25: the window probed for a half, and returned for it when under the
\* ceiling, is the half as the bisection built it, (start, mid + 3 days) or
\* (mid - 3 days, end) clamped to now, and no window that is returned
\* extends outside the buffered range of the outermost call.
C25_HalvesAsBuilt ==
    RootValid =>
        /\ (splitLast.depth >= 2 /\ LastProbed) =>
              /\ splitLast.bs = splitLast.s
              /\ splitLast.be = splitLast.e
        /\ \A w \in OutWindows :
              w.via \in {"under", "indivisible"} =>
                  /\ RootBuffered.s <= w.s
                  /\ w.e <= RootBuffered.e

(***************************************************************************)
(* Claims about the delays of make_request, checked under SpecReq          *)
(***************************************************************************)
\* the delay the claim gives the failed attempt i: none after the last
\* attempt, 10 seconds for a 503, i + 1 seconds otherwise
claimed_delay(i, result) ==
    IF ~IsRequestException(result) \/ i = MAX_RETRIES - 1 THEN 0
    ELSE IF result = "503" THEN 10
    ELSE i + 1

RECURSIVE claimed_delays(_)
claimed_delays(n) ==
    IF n = 0 THEN 0
    ELSE claimed_delay(n - 1, reqLog[n].result) + claimed_delays(n - 1)

\* C26: the time make_request has slept is the sum of the delays of its
\* failed attempts: exactly 10 seconds after a 503, exactly i + 1 seconds
\* after another failure of attempt i, nothing after the last attempt.
C26_DelayAfterFailure == reqSlept = claimed_delays(Len(reqLog))

(***************************************************************************)
(* Claims about the dates media are filed under, checked under SpecPost    *)
(***************************************************************************)
\* the subject's store
SubjectStore == media_by_date_per_username[request.usernames[1]]

\* the years of the windows the handler crawls for the request (line 745)
WindowYears ==
    LET links == generate_links(request.start_year, request.end_year, CrawlNow)
    IN  {links[i].year : i \in DOMAIN links}

\* item it of the post behind link l has the date of no time tag of the
\* page: line 325 gave it the fallback date
Fallback(l, it) ==
    \A i \in DOMAIN PostPage(l).articles :
        extract_post_date(PostPage(l).articles[i]) # it.date

\* C27: for a request with start_year < end_year, media of a block with no
\* timestamp are filed under Y-01-01 for the year Y of the search window
\* the post was found through, which is the year of one of the windows of
\* the request.
C27_FallbackIsWindowYear ==
    request.start_year < request.end_year =>
        \A k \in DOMAIN tasks :
            \A i \in DOMAIN tasks[k].items :
                (/\ tasks[k].items[i] \in Filed(SubjectStore)
                 /\ Fallback(tasks[k].link, tasks[k].items[i]))
                    => \E y \in WindowYears :
                          tasks[k].items[i].date = Date(y, 1, 1)

(***************************************************************************)
(* Claims about the span and the clamps of the windows of generate_links   *)
(* (app.py), checked under SpecGen                                         *)
(***************************************************************************)
\* C28: a window that starts in December of a year Y and ends in January
\* ends in January of Y + 1, and every emitted window spans less than one
\* year.
C28_WindowUnderOneYear ==
    genPc = "done" =>
        \A l \in GenEmitted :
            /\ (MonthOf(l.start_date) = 12 /\ MonthOf(l.end_date) = 1)
                  => YearOf(l.end_date) = YearOf(l.start_date) + 1
            /\ l.end_date < l.start_date + 10000

\* C29: every emitted window is clamped to [2010-01-01, now]: it starts on
\* 2010-01-01 or later and ends on the date of now or earlier.
C29_WindowClamped ==
    genPc = "done" =>
        \A l \in GenEmitted :
            /\ Date(MIN_YEAR, 1, 1) <= l.start_date
            /\ l.end_date <= dt_date(genNow)

(***************************************************************************)
(* Claims about the years of the stored dates, checked under SpecPost      *)
(***************************************************************************)
\* the date keys of every media type of every subject's store
StoredDates ==
    UNION {DOMAIN media_by_date_per_username[u][type] :
              u \in DOMAIN media_by_date_per_username, type \in MediaTypes}

\* C30: every date key of a store has a year within the requested
\* [start_year, end_year]; a block dated outside, by its time tag or by the
\* fallback, adds nothing.
C30_StoredYearsInRange ==
    \A date \in StoredDates :
        /\ request.start_year <= YearOf(date)
        /\ YearOf(date) <= request.end_year

\* the post with a block of unreadable date and a block dated 2020-01-05,
\* processed to the end for the years 2021-2021: the first block's image is
\* filed under the fallback date, the second block's media are not
C30_Witness ==
    /\ request = [usernames |-> <<N_jane>>, start_year |-> 2021,
                  end_year |-> 2021]
    /\ all_post_links = <<"both">>
    /\ BatchProcessed
    /\ StoredDates = {Date(2021, 1, 1)}
    /\ tasks[1].items # <<>>

(***************************************************************************)
(* Claims about a failed probe of split_url (app.py), checked under        *)
(* SpecSplit                                                               *)
(***************************************************************************)
\* the call about to run has a valid window (it gets past line 172)
NextCallValid ==
    /\ splitStack # <<>>
    /\ strptime(Head(splitStack).s) < strptime(Head(splitStack).e)

\* C31: a call of split_url whose probe fails (fetch or parse error) returns
\* the list of one window, its buffered window, and makes no further call:
\* no bisection, no other probe for it, nothing raised to the caller.
C31_ProbeFailureReturnsWindow ==
    [][(NextCallValid /\ splitLast'.probe = Fail) =>
          LET f == Head(splitStack)
              bs == strftime(buffered_start_dt(strptime(f.s)))
              be == strftime(buffered_end_dt(strptime(f.e), splitNow))
          IN  /\ splitStack' = Tail(splitStack)
              /\ Len(splitOut') = Len(splitOut) + 1
              /\ splitOut'[Len(splitOut')].s = bs
              /\ splitOut'[Len(splitOut')].e = be
              /\ splitOut'[Len(splitOut')].via = "probe_failed"
              /\ \A i \in DOMAIN splitOut : splitOut'[i] = splitOut[i]]_vars

\* the probe of a half failed: the half is returned with its buffer, which
\* is wider than the half, and more than a day long
C31_Witness ==
    /\ splitLast.probe = Fail
    /\ splitLast.depth = 2
    /\ splitLast.s < splitLast.e
    /\ splitLast.calls = <<>>
    /\ splitOut # <<>>
    /\ splitOut[Len(splitOut)].via = "probe_failed"
    /\ splitOut[Len(splitOut)].s < splitLast.s
    /\ splitOut[Len(splitOut)].e > splitLast.e

(***************************************************************************)
(* Claims about the barrier between the page phase and the post phase,     *)
(* checked under SpecSolo                                                  *)
(***************************************************************************)
\* list a is the beginning of list b
IsPrefix(a, b) == Len(a) <= Len(b) /\ \A i \in DOMAIN a : a[i] = b[i]

\* the handler stands between two batches of the subject's crawl: at a
\* window, in split_url, at a split window, about to submit its page tasks,
\* or past the last window and about to submit the post tasks
BetweenBatches == pc \in {"window", "split", "url", "submit_pages", "posts"}

\* page task k ran to its end, was handed out by line 764 and had its links
\* merged by lines 769-770
PageMerged(k) ==
    /\ tasks[k].state = "done"
    /\ tasks[k].yielded
    /\ \A i \in DOMAIN tasks[k].links :
          /\ tasks[k].links[i] \in seen_links
          /\ \E j \in DOMAIN all_post_links :
                all_post_links[j] = tasks[k].links[i]

\* C32: no process_post task of a subject is submitted before every page
\* future of every window of the subject has completed and had its links
\* merged into the subject's list.  The handler leaves the page futures of
\* a window (for the next window, or for the post tasks) only when each of
\* them is done and merged; the post tasks are submitted from the merged
\* list, one a link; and within a subject the list only grows, so what was
\* merged for an earlier window is still in it.
C32_PagesBeforePosts ==
    /\ [](BetweenBatches =>
            \A k \in DOMAIN tasks :
                (tasks[k].kind = "page" /\ tasks[k].username = username)
                    => PageMerged(k))
    /\ [](pc \in {"install_posts", "await_posts"} =>
            /\ Len(tasks) = Len(all_post_links)
            /\ \A k \in DOMAIN tasks :
                  /\ tasks[k].kind = "post"
                  /\ tasks[k].link = all_post_links[k])
    /\ [][pc # "subject" => IsPrefix(all_post_links, all_post_links')]_vars

\* the post tasks of a subject have just been submitted, after the page
\* futures of two windows, and none of them has started
C32_Witness ==
    /\ pc = "install_posts"
    /\ batchNo = 3
    /\ Len(all_post_links) = 2
    /\ \A k \in DOMAIN tasks : tasks[k].state = "pending"

(***************************************************************************)
(* Claims about the output stage, checked under SpecSolo                   *)
(***************************************************************************)
\* the handler is in lines 814-850: the subject loop is over and the stores
\* are handed to create_html, the page to upload_file
AtOutput == pc \in {"finish", "report"}

\* the handler has left the try block for its except or finally clauses, or
\* has returned
Leaving == pc \in {"finally", "finally_del", "returned"}

\* C33: the stores are handed to create_html and the upload only after
\* every extraction future of every subject is complete (it returned,
\* raised or was cancelled before it ran, and the handler's loop has taken
\* it), and a crawl that reports "stopped" never invokes the output stage:
\* the handler takes up a new subject, and reaches the output stage, with
\* every future finished and handed out and no outcome reported; "stopped"
\* is reported on the way out only, from where the handler never comes back
\* to the output stage, and never after another outcome.
C33_OutputAfterExtraction ==
    /\ []((AtOutput \/ pc = "subject") =>
            /\ outcome = "none"
            /\ \A k \in DOMAIN tasks :
                  tasks[k].state \in {"done", "cancelled"} /\ tasks[k].yielded)
    /\ [](outcome = "stopped" => Leaving)
    /\ [][Leaving => Leaving']_vars
    /\ [][outcome' = "stopped" => outcome \in {"none", "stopped"}]_vars

\* the page was uploaded for a crawl one of whose post futures was
\* cancelled by /stop before it ran, and another of whose posts gave media
C33_Witness ==
    /\ pc = "returned"
    /\ outcome = "uploaded"
    /\ \E k \in DOMAIN tasks : tasks[k].kind = "post"
                                /\ tasks[k].state = "cancelled"
    /\ \E k \in DOMAIN tasks : tasks[k].kind = "post"
                                /\ tasks[k].state = "done"
                                /\ tasks[k].items # <<>>

(***************************************************************************)
(* Claims about the pages fetched for a window, checked under SpecSolo     *)
(***************************************************************************)
\* C34: each of the pages 1..N of a window is fetched once.  Page 1 is what
\* the handler's own fetch of line 757 reads for the page count, so the
\* page tasks submitted for the window are those of the pages 2..N only.
C34_PagesFetchedOnce ==
    \A k \in DOMAIN tasks :
        tasks[k].kind = "page" => tasks[k].page \in 2 .. page_total

(***************************************************************************)
(* Claims about split_url of bot.py, checked under SpecBotSplit            *)
(***************************************************************************)
\* C35: when a call bisects its window (start, end), start before end, every
\* calendar day of the window lies inside one of the two windows it calls
\* itself with.
C35_HalvesCoverParent ==
    (Len(splitLast.calls) = 2 /\ splitLast.s < splitLast.e) =>
        \A d \in splitLast.s .. splitLast.e :
            \E i \in 1 .. 2 : /\ splitLast.calls[i].s <= d
                              /\ d <= splitLast.calls[i].e

(***************************************************************************)
(* Claims about generate_links of bot.py, checked under SpecBotGen         *)
(***************************************************************************)
\* C36: for a year range within 2010 .. the current year, every calendar
\* day from startYear-01-01 to min(endYear-12-31, today), the first weeks
\* of January of startYear included, lies within [start_date, end_date] of
\* an emitted window.
C36_BotRangeCovered ==
    (/\ genPc = "done"
     /\ MIN_YEAR <= genArgs.start_year
     /\ genArgs.start_year <= genArgs.end_year
     /\ genArgs.end_year <= YearOf(dt_date(genNow))) =>
        \A d \in UNION {DatesOfYear(y) :
                           y \in genArgs.start_year .. genArgs.end_year} :
            d <= dt_date(genNow) =>
                \E l \in GenEmitted : l.start_date <= d /\ d <= l.end_date

(***************************************************************************)
(* Claims about the seen-set and the stores, checked under SpecPost        *)
(***************************************************************************)
\* a worker has marked the URL seen (line 342) and has not yet appended it
\* to its date list (line 345)
BeingFiled(type, src) ==
    \E k \in DOMAIN tasks :
        /\ tasks[k].state = "running"
        /\ tasks[k].pc \in {"date", "create", "append"}
        /\ CurrentItem(k).type = type
        /\ CurrentItem(k).src = src

\* C37: the seen-set and the stores agree, also while process_post workers
\* run concurrently: every URL of global_seen[type] is in a date list of
\* that type of some subject's store, or is on its way there in the worker
\* that marked it.
C37_SeenIsStored ==
    \A type \in MediaTypes : \A src \in global_seen[type] :
        \/ BeingFiled(type, src)
        \/ \E u \in DOMAIN media_by_date_per_username :
              src \in StoredUrls(u, type)

(***************************************************************************)
(* Claims about two crawl requests of one chat and /stop, checked under    *)
(* SpecRival                                                               *)
(***************************************************************************)
\* the first request's crawl is running: its handler is past line 726 and
\* has not left the try block
CrawlRunning == pc \notin {"request", "finally", "finally_del", "returned"}

\* the second request was not refused: its handler is past line 726 too
RivalRunning == rival_pc = "crawl"

\* C38: at most one crawl runs for the chat at any time, whatever the
\* interleaving of the two requests and of /stop: the second request is
\* never crawling while the first request's crawl is running.
C38_OneCrawlPerChat == ~(CrawlRunning /\ RivalRunning)

(***************************************************************************)
(* Claims about the report of the upload, checked under SpecSolo           *)
(***************************************************************************)
\* upload_file has returned the URL of the page (line 834)
UploadReturned == pc = "report"

\* C39: "Upload failed" is reported only when upload_file failed: once
\* upload_file has returned a URL the handler does not report a failed
\* upload.
C39_UploadFailedOnlyOnFailure ==
    [][UploadReturned => outcome' # "upload_failed"]_vars

====
